---------------------------- MODULE Spec2Model ----------------------------
(***************************************************************************)
(* Model of the self-correcting query execution pipeline of udae and of   *)
(* the relationship-graph build of its semantic layer:                     *)
(*   text_to_query/services/query_service.py  execute_query_with_fixing    *)
(*   text_to_query/query_fixer.py             QueryFixer                   *)
(*   text_to_query/query_executor.py          QueryExecutor                *)
(*   text_to_query/schema_validator.py        SchemaValidator              *)
(*   text_to_query/schema_parser.py           SchemaRelationshipParser     *)
(*   text_to_query/schema_healer.py           SchemaHealer (classifiers)   *)
(*   semantic_layer/relationship_analyzer.py  RelationshipAnalyzer         *)
(*   semantic_layer/llm_inference.py          RelationshipInferenceEngine  *)
(*   semantic_layer/pipeline.py               SemanticLayerPipeline.run    *)
(*                                                                         *)
(* Text is a sequence of tokens (strings); a Python dict is a function     *)
(* from its keys; a Python list is a sequence.                             *)
(***************************************************************************)
EXTENDS Integers, Sequences, FiniteSets, TLC

VARIABLES
    relationships,  \* SchemaRelationshipParser.relationships, keys in insertion order
    query,          \* the query  argument of execute_query_with_fixing
    question,       \* the question argument (text, possibly empty)
    schema_context, \* the schema_context argument (text, possibly empty)
    pc,             \* position of the request inside execute_query_with_fixing
    validation,     \* local: result of validate_query_cubes (NoValue before)
    result,         \* local: result of the first execute_query (NoValue before)
    fix_result,     \* local: result of attempt_fix (NoValue before)
    retry_result,   \* local: result of the second execute_query (NoValue before)
    returned,       \* the dict returned to the caller (NoValue until return)
    raised,         \* the exception that left the function (NoValue if none)
    engine_log,     \* every engine round-trip: query sent, http outcome, result
    llm_log,        \* every attempt_fix call: arguments, model outcome, result
    cube_list,      \* the cubes argument of a direct validate_query_cubes call
    tables,         \* RelationshipAnalyzer.tables, in insertion order
    analyzer_relationships, \* RelationshipAnalyzer.relationships
    llm_result,     \* what infer_relationships returned to SemanticLayerPipeline.run
    healer_input,   \* the error_message argument of the SchemaHealer classifiers
    healer_parsed,  \* what parse_missing_measure_error returned for it
    healer_join     \* what parse_join_error returned for it

\* the variables of a direct call of the validator
validator_vars == << cube_list >>

\* the variables of the semantic-layer pipeline
analyzer_vars == << tables, analyzer_relationships, llm_result >>

\* the variables of a direct call of the classifiers
healer_vars == << healer_input, healer_parsed, healer_join >>

vars == << relationships, query, question, schema_context, pc, validation,
           result, fix_result, retry_result, returned, raised, engine_log,
           llm_log, validator_vars, analyzer_vars, healer_vars >>

-----------------------------------------------------------------------------
(* Bounds of the model *)

\* the engine returns between 0 and MaxRows rows
MaxRows == 1

\* the relationship graph of the parser holds at most MaxEdges relationships
MaxEdges == 2

-----------------------------------------------------------------------------
(* Python values *)

\* value of a local that has not been assigned / Python None
NoValue == [t |-> "None"]

\* d[k] = v on a dict
Put(d, k, v) == (k :> v) @@ d

\* d.get(k, default)
Get(d, k, default) == IF k \in DOMAIN d THEN d[k] ELSE default


\* whitespace tokens removed by str.strip()
Whitespace == {" ", "\n"}

RECURSIVE LStrip(_)
\* str.lstrip()
LStrip(s) ==
    IF s # << >> /\ Head(s) \in Whitespace THEN LStrip(Tail(s)) ELSE s

RECURSIVE RStrip(_)
\* str.rstrip()
RStrip(s) ==
    IF s # << >> /\ s[Len(s)] \in Whitespace
        THEN RStrip(SubSeq(s, 1, Len(s) - 1))
        ELSE s

\* str.strip()
Strip(s) == RStrip(LStrip(s))

\* str.find(tok): 1-based position of the first occurrence, 0 when absent
\* (Python: 0-based, -1 when absent)
Find(s, tok) ==
    IF \E i \in 1..Len(s) : s[i] = tok
        THEN CHOOSE i \in 1..Len(s) :
                 s[i] = tok /\ \A j \in 1..(i - 1) : s[j] # tok
        ELSE 0

\* str.rfind(tok): 1-based position of the last occurrence, 0 when absent
RFind(s, tok) ==
    IF \E i \in 1..Len(s) : s[i] = tok
        THEN CHOOSE i \in 1..Len(s) :
                 s[i] = tok /\ \A j \in (i + 1)..Len(s) : s[j] # tok
        ELSE 0

\* s.startswith(tok)
StartsWith(s, tok) == s # << >> /\ s[1] = tok

RECURSIVE Split(_, _)
\* str.split(sep): the list of pieces between the occurrences of sep
Split(s, sep) ==
    LET i == Find(s, sep) IN
    IF i = 0 THEN << s >>
    ELSE << SubSeq(s, 1, i - 1) >> \o Split(SubSeq(s, i + 1, Len(s)), sep)

\* s.replace(tok, "")
Remove(s, tok) == SelectSeq(s, LAMBDA x : x # tok)

RECURSIVE Join(_, _)
\* sep.join(parts)
Join(parts, sep) ==
    IF parts = << >> THEN << >>
    ELSE IF Len(parts) = 1 THEN parts[1]
    ELSE parts[1] \o << sep >> \o Join(Tail(parts), sep)

\* str.lower() on one token
Lower(tok) ==
    CASE tok = "True" -> "true"
      [] tok = "TRUE" -> "true"
      [] tok = "False" -> "false"
      [] OTHER -> tok

\* the entity names of the model, as (Title case, UPPER CASE, lower case)
NameForms ==
    { << "Film", "FILM", "film" >>,
      << "Actor", "ACTOR", "actor" >>,
      << "Address", "ADDRESS", "address" >>,
      << "Customer", "CUSTOMER", "customer" >>,
      << "Staff", "STAFF", "staff" >>,
      << "Store", "STORE", "store" >>,
      << "State", "STATE", "state" >>,
      << "Order", "ORDER", "order" >> }

\* the spelling of name in the given column of NameForms
Respell(name, col) ==
    IF \E f \in NameForms : \E k \in 1..3 : f[k] = name
        THEN (CHOOSE f \in NameForms : \E k \in 1..3 : f[k] = name)[col]
        ELSE name

\* str.title(), str.upper() and str.lower() on an entity name
Title(name) == Respell(name, 1)

Upper(name) == Respell(name, 2)

LowerName(name) == Respell(name, 3)

-----------------------------------------------------------------------------
(* The semantic-layer engine as seen through httpx *)

\* the engine's message for two cubes it cannot join
JoinErrorText ==
    << "Can't find join path to join ", "'", "Actor", "'", ", ", "'", "Address", "'" >>

\* error strings the engine reports
EngineErrors ==
    LET MissingMeasureText ==
            << "'", "count", "'", " not found for path ", "'", "Film", ".", "count", "'" >>
        OtherErrorText == << "Query timeout" >>
    IN  { MissingMeasureText, JoinErrorText, OtherErrorText }

\* the rows the engine computes for query q when it returns n rows
Rows(q, n) == [i \in 1..n |-> [of |-> q, row |-> i]]

\* a response body: its text and what response.json() makes of it
\* (t = "invalid": json() raises; "dict" / "list": the parsed value)
DictBody(d, text) == [text |-> text, json |-> [t |-> "dict", v |-> d]]

ErrorBody(e) == DictBody([error |-> e], << "{\"error\": " >> \o e \o << "}" >>)

DataBody(q, n) ==
    DictBody([data |-> [t |-> "list", v |-> Rows(q, n)],
              query |-> [t |-> "dict", v |-> [sql |-> << "SELECT" >>]]],
             << "{\"data\": [..], \"query\": {..}}" >>)

NoSqlBody(q, n) ==
    DictBody([data |-> [t |-> "list", v |-> Rows(q, n)]], << "{\"data\": [..]}" >>)

\* a body with neither "error" nor "data"
EmptyBody == DictBody([status |-> << "ok" >>], << "{\"status\": \"ok\"}" >>)

NullDataBody == DictBody([data |-> NoValue], << "{\"data\": null}" >>)

BadQueryBody(q) ==
    DictBody([data |-> [t |-> "list", v |-> Rows(q, 1)],
              query |-> [t |-> "str", v |-> << "SELECT" >>]],
             << "{\"data\": [..], \"query\": \"SELECT\"}" >>)

ListBody == [text |-> << "[]" >>, json |-> [t |-> "list", v |-> << >>]]

HtmlBody == [text |-> << "<html>Bad Gateway</html>" >>, json |-> [t |-> "invalid"]]

\* outcomes of client.post for query q: a transport exception or a response
HttpOutcomes(q) ==
    { [kind |-> "transport", msg |-> << "timed out" >>] }
    \cup { [kind |-> "response", status |-> 200, body |-> b] :
             b \in { DataBody(q, n) : n \in 0..MaxRows }
                   \cup { NoSqlBody(q, MaxRows) }
                   \cup { ErrorBody(e) : e \in EngineErrors }
                   \cup { EmptyBody, NullDataBody, BadQueryBody(q), ListBody, HtmlBody } }
    \cup { [kind |-> "response", status |-> st, body |-> b] :
             st \in { 400, 500 },
             b \in { ErrorBody(JoinErrorText), EmptyBody, ListBody, HtmlBody } }

\* raise_for_status() that lets client errors through
IsSuccessStatusLax(st) == st \in 200..499

\* response.raise_for_status() passes
IsSuccessStatus(st) == st \in 200..299

-----------------------------------------------------------------------------
(* QueryExecutor.execute_query, query_executor.py 19-72 *)

\* the dict of lines 61-65 and 68-72
Failure(prefix, detail, q) ==
    [success |-> FALSE, error |-> << prefix >> \o detail, query |-> q]

\* lines 53-65: except httpx.HTTPStatusError
HTTPStatusErrorResult(q, body) ==
    LET error_detail ==
            IF body.json.t = "dict"
                THEN Get(body.json.v, "error", body.text)
                ELSE body.text   \* json() raised, or .get is no attribute of a list
    IN Failure("Cube.js API error: ", error_detail, q)

\* lines 37-51 for a 2xx response
ParsedResponseResult(q, body) ==
    LET data == body.json IN
    IF data.t = "invalid"
        THEN Failure("Execution error: ", << "Expecting value" >>, q)
    ELSE IF data.t = "list"
        \* "error" in data is False, data.get raises AttributeError
        THEN Failure("Execution error: ",
                     << "'list' object has no attribute 'get'" >>, q)
    ELSE IF "error" \in DOMAIN data.v
        THEN [success |-> FALSE, error |-> data.v["error"], query |-> q]
    ELSE
        LET results == Get(data.v, "data", [t |-> "list", v |-> << >>])
            qinfo == Get(data.v, "query", [t |-> "dict", v |-> [unset |-> TRUE]])
        IN  IF results.t # "list"
                THEN Failure("Execution error: ",
                             << "object of type 'NoneType' has no len()" >>, q)
            ELSE IF qinfo.t # "dict"
                THEN Failure("Execution error: ",
                             << "'str' object has no attribute 'get'" >>, q)
            ELSE [success |-> TRUE,
                  data |-> results.v,
                  count |-> Len(results.v),
                  query |-> q,
                  sql |-> IF "sql" \in DOMAIN qinfo.v
                              THEN [t |-> "str", v |-> qinfo.v["sql"]]
                              ELSE NoValue]

\* execute_query(query) when client.post behaves as http
execute_query(q, http) ==
    IF http.kind = "transport"
        THEN Failure("Execution error: ", http.msg, q)
    ELSE IF ~IsSuccessStatus(http.status)
        THEN HTTPStatusErrorResult(q, http.body)
    ELSE ParsedResponseResult(q, http.body)

-----------------------------------------------------------------------------
(* Queries *)

\* "Entity.field"
Member(cube, field) == << cube, ".", field >>

\* the queries a request arrives with
QFilmCount == [measures |-> << Member("Film", "count") >>]

QFilmActor ==
    [dimensions |-> << Member("Actor", "name") >>,
     measures |-> << Member("Film", "count") >>]

QFilmAddress ==
    [measures |-> << Member("Film", "count") >>,
     filters |-> << [member |-> Member("Address", "city"),
                     operator |-> "equals",
                     values |-> << "Paris" >>] >>]

RequestQueries == { QFilmCount, QFilmActor, QFilmAddress }

\* the queries the language model proposes, by the text between the braces
QCustomerCount == [measures |-> << Member("Customer", "count") >>]

QActorAddress ==
    [dimensions |-> << Member("Address", "city") >>,
     measures |-> << Member("Actor", "count") >>]

\* a proposal that spells out the join itself
QCustomerJoined ==
    [measures |-> << Member("Customer", "count") >>,
     joins |-> << [name |-> "Address"] >>]

JsonMembers ==
    [b \in { "\"measures\": [\"Customer.count\"]",
             "\"dimensions\": [\"Address.city\"], \"measures\": [\"Actor.count\"]",
             "\"measures\": [\"Customer.count\"], \"joins\": [{\"name\": \"Address\"}]" } |->
        CASE b = "\"measures\": [\"Customer.count\"]" -> QCustomerCount
          [] b = "\"dimensions\": [\"Address.city\"], \"measures\": [\"Actor.count\"]"
               -> QActorAddress
          [] OTHER -> QCustomerJoined]

\* json.loads(text): a JSON object is "{" members "}", whitespace between the
\* tokens is insignificant, anything else raises json.JSONDecodeError
JsonLoads(text) ==
    LET toks == SelectSeq(text, LAMBDA x : x \notin Whitespace) IN
    IF Len(toks) = 3 /\ toks[1] = "{" /\ toks[3] = "}" /\ toks[2] \in DOMAIN JsonMembers
        THEN [ok |-> TRUE, value |-> JsonMembers[toks[2]]]
        ELSE [ok |-> FALSE]

-----------------------------------------------------------------------------
(* QueryFixer, query_fixer.py *)

\* lines 137-140: the first line starting with FIXED: decides
FixedFlag(lines) ==
    IF \E i \in 1..Len(lines) : StartsWith(lines[i], "FIXED:")
        THEN LET i == CHOOSE k \in 1..Len(lines) :
                          /\ StartsWith(lines[k], "FIXED:")
                          /\ \A j \in 1..(k - 1) : ~StartsWith(lines[j], "FIXED:")
             IN \E k \in 1..Len(lines[i]) : Lower(lines[i][k]) = "true"
        ELSE FALSE

RECURSIVE ExplanationLines(_, _)
\* lines 143-150: the loop over lines, in_explanation carried along
ExplanationLines(lines, in_explanation) ==
    IF lines = << >> THEN << >>
    ELSE LET line == Head(lines) IN
         IF StartsWith(line, "EXPLANATION:")
             THEN << Strip(Remove(line, "EXPLANATION:")) >>
                  \o ExplanationLines(Tail(lines), TRUE)
         ELSE IF in_explanation /\ ~StartsWith(line, "QUERY:")
             THEN << Strip(line) >> \o ExplanationLines(Tail(lines), in_explanation)
         ELSE ExplanationLines(Tail(lines), in_explanation)

\* the markdown code fence (three backquotes), as one token
Fence == "<fence>"

\* lines 159-176: the text handed to json.loads, [found |-> FALSE] when
\* neither branch reaches json.loads
QueryJsonText(content) ==
    LET query_start == Find(content, "QUERY:") IN
    IF query_start # 0
        THEN LET after == Strip(SubSeq(content, query_start + 1, Len(content)))
                 inner == IF StartsWith(after, Fence)
                              THEN LET piece == Split(after, Fence)[2]
                                   IN IF StartsWith(piece, "json")
                                          THEN Tail(piece)
                                          ELSE piece
                              ELSE after
             IN [found |-> TRUE, text |-> Strip(inner)]
        ELSE LET start == Find(content, "{")
                 end == RFind(content, "}")
             IN IF start # 0 /\ end > start
                    THEN [found |-> TRUE, text |-> SubSeq(content, start, end)]
                    ELSE [found |-> FALSE]

\* _parse_fix_response(content), lines 128-182
_parse_fix_response(content) ==
    LET lines == Split(Strip(content), "\n")
        fixed == FixedFlag(lines)
        explanation == Strip(Join(ExplanationLines(lines, FALSE), " "))
        res == [fixed |-> fixed, explanation |-> explanation]
    IN  IF ~fixed THEN res
        ELSE LET jt == QueryJsonText(content) IN
             IF ~jt.found THEN res
             ELSE LET parsed == JsonLoads(jt.text) IN
                  IF parsed.ok
                      THEN Put(res, "query", parsed.value)
                      ELSE [fixed |-> FALSE,
                            explanation |->
                                << "LLM suggested a fix but generated invalid JSON: " >>
                                \o explanation]

\* attempt_fix(...) when client.messages.create behaves as llm, lines 52-76
attempt_fix(llm) ==
    IF llm.kind = "raise"
        THEN [fixed |-> FALSE,
              explanation |-> << "Could not analyze error: " >> \o llm.msg]
        ELSE _parse_fix_response(llm.content)

-----------------------------------------------------------------------------
(* The language model: what client.messages.create may answer *)

FixedLines ==
    { << >>,
      << "FIXED:", " ", "true", "\n" >>,
      << "FIXED:", " ", "True", "\n" >>,
      << "FIXED:", " ", "false", "\n" >> }

QuerySections ==
    { << >>,
      << "QUERY:", "\n" >>,
      << "}", " ", "{", "\n" >>,
      << "{", "oops", "}", "\n" >> }
    \cup UNION { { << "QUERY:", " ", "{", b, "}", "\n" >>,
                   << "QUERY:", "\n", Fence, "json", "\n", "{", b, "}", "\n", Fence, "\n" >>,
                   << "QUERY:", " ", Fence, "\n", "{", b, "}", "\n", Fence, "\n" >>,
                   << "QUERY:", " ", "{", b, "\n" >>,
                   << "{", b, "}", "\n" >>,
                   << "{", b, "\n" >> } : b \in DOMAIN JsonMembers }

ExplanationSections ==
    { << >>,
      << "EXPLANATION:", " ", "Changed", " ", "cube", "\n" >>,
      << "EXPLANATION:", " ", "Cannot", " ", "fix:", "\n", "query", " ", "separately", "\n" >> }

\* the answers of the model: the three sections in the order the prompt
\* prescribes, or with the explanation before the query
LLMContents ==
    { f \o q \o e : f \in FixedLines, q \in QuerySections, e \in ExplanationSections }
    \cup { f \o e \o q : f \in FixedLines, q \in QuerySections, e \in ExplanationSections }

\* outcomes of the model call: an exception, or a text
LLMOutcomes ==
    { [kind |-> "raise", msg |-> << "Connection error." >>] }
    \cup { [kind |-> "text", content |-> c] : c \in LLMContents }

-----------------------------------------------------------------------------
(* SchemaRelationshipParser, schema_parser.py *)

RECURSIVE ScanRelationships(_, _, _, _, _, _, _)
\* lines 210-225: the for loop over self.relationships for one dequeued
\* (current, path), from the i-th relationship on
ScanRelationships(rels, i, current, path, visited, queue, to_entity) ==
    IF i > Len(rels) THEN [found |-> FALSE, visited |-> visited, queue |-> queue]
    ELSE LET from_e == rels[i][1]
             to_e == rels[i][2]
             next_entity ==
                 IF from_e = current /\ to_e \notin visited THEN << to_e >>
                 ELSE IF to_e = current /\ from_e \notin visited THEN << from_e >>
                 ELSE << >>
         IN  IF next_entity = << >>
                 THEN ScanRelationships(rels, i + 1, current, path, visited,
                                        queue, to_entity)
             ELSE IF next_entity[1] = to_entity
                 THEN [found |-> TRUE, path |-> path \o next_entity]
             ELSE ScanRelationships(rels, i + 1, current, path,
                                    visited \cup { next_entity[1] },
                                    Append(queue, << next_entity[1], path \o next_entity >>),
                                    to_entity)

RECURSIVE SearchQueue(_, _, _, _)
\* lines 206-227: the while loop over the queue
SearchQueue(rels, queue, visited, to_entity) ==
    IF queue = << >> THEN NoValue
    ELSE LET scan == ScanRelationships(rels, 1, Head(queue)[1], Head(queue)[2],
                                       visited, Tail(queue), to_entity)
         IN  IF scan.found
                 THEN [t |-> "list", v |-> scan.path]
                 ELSE SearchQueue(rels, scan.queue, scan.visited, to_entity)

\* get_join_path(from_entity, to_entity), lines 182-227: NoValue for None
get_join_path(rels, from_entity, to_entity) ==
    LET from_u == Upper(from_entity)
        to_u == Upper(to_entity)
    IN  IF from_u = to_u THEN [t |-> "list", v |-> << from_u >>]
        ELSE SearchQueue(rels, << << from_u, << from_u >> >> >>, { from_u }, to_u)

\* get_related_entities(entity), lines 229-246
get_related_entities(rels, entity) ==
    LET e == Upper(entity)
        to_me == SelectSeq(rels, LAMBDA r : r[2] = e)
        from_me == SelectSeq(rels, LAMBDA r : r[1] = e)
    IN  [parents |-> [i \in 1..Len(to_me) |-> to_me[i][1]],
         children |-> [i \in 1..Len(from_me) |-> from_me[i][2]]]

-----------------------------------------------------------------------------
(* SchemaValidator, schema_validator.py *)

MAX_JOIN_PATH_LENGTH == 3

ADDRESS_ENTITIES == { "CUSTOMER", "STAFF", "STORE" }

\* the lists a Python set may iterate as
Orderings(S) ==
    { o \in [1..Cardinality(S) -> S] : \A i, j \in 1..Cardinality(S) : o[i] = o[j] => i = j }

\* the elements of a list, as a set
Range(s) == { s[i] : i \in 1..Len(s) }

\* "." in member
HasDot(member) == \E i \in 1..Len(member) : member[i] = "."

\* member.split(".")[0]; the text before the first dot is one token or empty
CubeOf(member) == IF member[1] = "." THEN "" ELSE member[1]

\* extract_cubes_from_query(query), lines 130-161, as the set cubes before
\* list(cubes) puts it in some order
ExtractedCubes(q) ==
    LET dims == Get(q, "dimensions", << >>)
        meas == Get(q, "measures", << >>)
        filt == Get(q, "filters", << >>)
    IN  { CubeOf(dims[i]) : i \in { k \in 1..Len(dims) : HasDot(dims[k]) } }
        \cup { CubeOf(meas[i]) : i \in { k \in 1..Len(meas) : HasDot(meas[k]) } }
        \cup { CubeOf(Get(filt[i], "member", << "" >>)) :
                 i \in { k \in 1..Len(filt) : HasDot(Get(filt[k], "member", << "" >>)) } }

\* lines 44-53: the pairs (i, j), i < j, in the order of the two loops
CubePairs(cubes) ==
    LET n == Len(cubes)
        idx == { << i, j >> \in (1..n) \X (1..n) : i < j }
        Before(a, b) == a[1] < b[1] \/ (a[1] = b[1] /\ a[2] < b[2])
        Nth(k) == CHOOSE p \in idx : Cardinality({ r \in idx : Before(r, p) }) = k - 1
    IN  [k \in 1..Cardinality(idx) |-> << cubes[Nth(k)[1]], cubes[Nth(k)[2]] >>]

\* lines 93-105: the alternative_entity suggestions, ADDRESS_ENTITIES iterated
\* in the order address_order
AlternativeEntities(rels, from_cube, to_cube, address_order) ==
    IF Upper(to_cube) \in { "ADDRESS", "CITY", "COUNTRY" } \/ LowerName(to_cube) = "state"
        THEN LET keep == SelectSeq(address_order, LAMBDA entity :
                             /\ entity # Upper(from_cube)
                             /\ LET path == get_join_path(rels, entity, "ADDRESS")
                                IN path # NoValue /\ Len(path.v) <= MAX_JOIN_PATH_LENGTH)
             IN [i \in 1..Len(keep) |->
                    [type |-> "alternative_entity",
                     entity |-> Title(keep[i]),
                     description |-> << Title(keep[i]),
                                        "s have addresses and can be queried by location" >>,
                     example |-> << "How many ", LowerName(keep[i]),
                                    "s are there per state?" >>]]
        ELSE << >>

\* line 119: the names containing _LIST, _INFO, FILM_ACTOR or FILM_CATEGORY
ViewsAndJunctions == { "CUSTOMER_LIST", "FILM_INFO", "FILM_ACTOR", "FILM_CATEGORY" }

\* lines 114-126: the related_entities suggestion, set(children + parents)
\* iterated in the order related_order
RelatedEntities(rels, from_cube, related_order) ==
    LET related_entities ==
            SelectSeq(related_order, LAMBDA e : Upper(e) \notin ViewsAndJunctions)
        first3 == SubSeq(related_entities, 1,
                         IF Len(related_entities) < 3 THEN Len(related_entities) ELSE 3)
    IN  IF related_entities # << >>
            THEN << [type |-> "related_entities",
                     description |-> << from_cube, " is directly related to: " >>
                                     \o Join([i \in 1..Len(first3) |-> << Title(first3[i]) >>], ", "),
                     example |-> << "Try querying ", from_cube,
                                    " with one of these instead" >>] >>
            ELSE << >>

\* lines 77-128 without the separate_queries suggestion of lines 107-112
SuggestAlternativesOnly(rels, from_cube, to_cube, address_order, related_order) ==
    AlternativeEntities(rels, from_cube, to_cube, address_order)
    \o RelatedEntities(rels, from_cube, related_order)

\* _suggest_alternatives(from_cube, to_cube), lines 77-128
_suggest_alternatives(rels, from_cube, to_cube, address_order, related_order) ==
    AlternativeEntities(rels, from_cube, to_cube, address_order)
    \o << [type |-> "separate_queries",
           description |-> << "Query ", from_cube, " and ", to_cube, " separately" >>,
           example |-> << "Try 'How many ", from_cube, "s are there?' and 'How many ",
                          to_cube, "s are there?' separately" >>] >>
    \o RelatedEntities(rels, from_cube, related_order)

\* the orders in which _suggest_alternatives may iterate set(children + parents)
RelatedOrders(rels, from_cube) ==
    LET rel == get_related_entities(rels, from_cube)
    IN Orderings(Range(rel.children) \cup Range(rel.parents))

\* lines 41-51: invalid_pairs after the two loops
InvalidPairs(rels, cubes) ==
    SelectSeq(CubePairs(cubes), LAMBDA p : get_join_path(rels, p[1], p[2]) = NoValue)

\* the orders in which a call validate_query_cubes(cubes) may iterate
\* set(children + parents) of the first cube of the first invalid pair
RelatedOrdersOf(rels, cubes) ==
    IF InvalidPairs(rels, cubes) = << >> THEN { << >> }
    ELSE RelatedOrders(rels, InvalidPairs(rels, cubes)[1][1])

\* validate_query_cubes(cubes), lines 27-75
validate_query_cubes(rels, cubes, address_order, related_order) ==
    IF Len(cubes) <= 1 THEN [valid |-> TRUE]
    ELSE LET pairs == CubePairs(cubes)
             PathOf(p) == get_join_path(rels, p[1], p[2])
             invalid_pairs == InvalidPairs(rels, cubes)
             long_paths == SelectSeq(pairs, LAMBDA p :
                               /\ PathOf(p) # NoValue
                               /\ Len(PathOf(p).v) > MAX_JOIN_PATH_LENGTH)
         IN  IF invalid_pairs # << >>
                 THEN [valid |-> FALSE,
                       error_type |-> "no_join_path",
                       from_cube |-> invalid_pairs[1][1],
                       to_cube |-> invalid_pairs[1][2],
                       message |-> << "No join path exists between ", invalid_pairs[1][1],
                                      " and ", invalid_pairs[1][2] >>,
                       suggestions |-> _suggest_alternatives(rels, invalid_pairs[1][1],
                                           invalid_pairs[1][2], address_order, related_order)]
             ELSE IF long_paths # << >>
                 THEN [valid |-> TRUE,
                       warning |-> TRUE,
                       message |-> << "Join path between ", long_paths[1][1], " and ",
                                      long_paths[1][2], " is very long (",
                                      ToString(Len(PathOf(long_paths[1]).v)),
                                      " hops). Results may be unexpected." >>,
                       path |-> Join([i \in 1..Len(PathOf(long_paths[1]).v) |->
                                         << PathOf(long_paths[1]).v[i] >>], " -> ")]
             ELSE [valid |-> TRUE]

RECURSIVE AllSuggestionLines(_, _)
\* the loop of lines 181-188 over suggestions instead of suggestions[:3]
AllSuggestionLines(suggestions, i) ==
    IF i > Len(suggestions) THEN << >>
    ELSE (IF suggestions[i].type = "alternative_entity"
              THEN << "\n", ToString(i), ". Try querying ", suggestions[i].entity,
                      " instead:", "\n", "   Example: \"" >>
                   \o suggestions[i].example \o << "\"", "\n" >>
              ELSE << "\n", ToString(i), ". " >> \o suggestions[i].description \o << "\n" >>)
         \o AllSuggestionLines(suggestions, i + 1)

RECURSIVE SuggestionLines(_, _)
\* format_validation_error, lines 181-188: the loop over suggestions[:3]
SuggestionLines(suggestions, i) ==
    IF i > Len(suggestions) \/ i > 3 THEN << >>
    ELSE (IF suggestions[i].type = "alternative_entity"
              THEN << "\n", ToString(i), ". Try querying ", suggestions[i].entity,
                      " instead:", "\n", "   Example: \"" >>
                   \o suggestions[i].example \o << "\"", "\n" >>
              ELSE << "\n", ToString(i), ". " >> \o suggestions[i].description \o << "\n" >>)
         \o SuggestionLines(suggestions, i + 1)

\* format_validation_error(validation_result), lines 163-190
format_validation_error(validation_result) ==
    IF Get(validation_result, "valid", FALSE) THEN << >>
    ELSE LET suggestions == Get(validation_result, "suggestions", << >>)
         IN Strip(<< "Cannot auto-fix: " >> \o validation_result.message
                  \o << ".", "\n", "\n" >>
                  \o (IF suggestions # << >>
                          THEN << "Suggestions:", "\n" >> \o SuggestionLines(suggestions, 1)
                          ELSE << >>))

-----------------------------------------------------------------------------
(* SchemaHealer error classifiers, schema_healer.py *)

\* position of the first tok at or after position from, 0 when there is none
FindFrom(s, tok, from) ==
    IF \E i \in from..Len(s) : s[i] = tok
        THEN CHOOSE i \in from..Len(s) : s[i] = tok /\ \A j \in from..(i - 1) : s[j] # tok
        ELSE 0

\* the pattern '([^']+)' not found for path '([^.]+)\.([^']+)' matched with
\* its first quote at position i: the positions of the closing quote of
\* group 1, of the dot and of the last quote
MeasureMatchAt(s, i) ==
    LET j == FindFrom(s, "'", i + 1)
        k == IF j = 0 THEN 0 ELSE FindFrom(s, ".", j + 3)
        m == IF k = 0 THEN 0 ELSE FindFrom(s, "'", k + 1)
    IN  [ok |-> /\ i <= Len(s) /\ s[i] = "'"
                /\ j >= i + 2
                /\ j + 2 <= Len(s)
                /\ s[j + 1] = " not found for path "
                /\ s[j + 2] = "'"
                /\ k >= j + 4
                /\ m >= k + 2,
         j |-> j, k |-> k, m |-> m]

\* parse_missing_measure_error(error_message), lines 48-73
parse_missing_measure_error(error_message) ==
    LET hits == { i \in 1..Len(error_message) : MeasureMatchAt(error_message, i).ok } IN
    IF hits = {} THEN NoValue
    ELSE LET i == CHOOSE x \in hits : \A y \in hits : x <= y
             mt == MeasureMatchAt(error_message, i)
             cube_name == SubSeq(error_message, mt.j + 3, mt.k - 1)
         IN [cube |-> cube_name,
             measure |-> SubSeq(error_message, i + 1, mt.j - 1),
             full_path |-> cube_name \o << "." >>
                           \o SubSeq(error_message, mt.k + 1, mt.m - 1)]

\* the pattern Can't find join path to join '([^']+)', '([^']+)' matched with
\* its literal head at position i
JoinMatchAt(s, i) ==
    LET j == FindFrom(s, "'", i + 2)
        m == IF j = 0 THEN 0 ELSE FindFrom(s, "'", j + 3)
    IN  [ok |-> /\ i + 1 <= Len(s)
                /\ s[i] = "Can't find join path to join "
                /\ s[i + 1] = "'"
                /\ j >= i + 3
                /\ j + 2 <= Len(s)
                /\ s[j + 1] = ", "
                /\ s[j + 2] = "'"
                /\ m >= j + 4,
         j |-> j, m |-> m]

\* parse_join_error(error_message), lines 75-99
parse_join_error(error_message) ==
    LET hits == { i \in 1..Len(error_message) : JoinMatchAt(error_message, i).ok } IN
    IF hits = {} THEN NoValue
    ELSE LET i == CHOOSE x \in hits : \A y \in hits : x <= y
             mt == JoinMatchAt(error_message, i)
         IN [from_cube |-> SubSeq(error_message, i + 2, mt.j - 1),
             to_cube |-> SubSeq(error_message, mt.j + 3, mt.m - 1),
             error_type |-> "missing_join_path"]

-----------------------------------------------------------------------------
(* execute_query_with_fixing, services/query_service.py 21-156 *)

\* the relationships the parser may have read, in insertion order
Graphs ==
    LET CandidateEdges ==
            { << "FILM", "ACTOR" >>, << "CUSTOMER", "ADDRESS" >>, << "ACTOR", "ADDRESS" >> }
    IN  UNION { { g \in [1..n -> CandidateEdges] : \A i, j \in 1..n : g[i] = g[j] => i = j } :
                  n \in 0..MaxEdges }

\* the question and schema_context arguments: empty (the default) or not
Questions == { << >>, << "How many films per city?" >> }

SchemaContexts == { << >>, << "Film: count, title; Actor: count, name" >> }

\* if question and schema_context
HasContext == question # << >> /\ schema_context # << >>

\* lines 68-71 and 124-127 with original_query taken from the result
AutoFixedFromResult(retry, fix, original) ==
    Put(Put(Put(retry, "auto_fixed", TRUE), "fix_explanation", fix.explanation),
        "original_query", retry.query)

\* lines 68-71 and 124-127
AutoFixed(retry, fix, original) ==
    Put(Put(Put(retry, "auto_fixed", TRUE), "fix_explanation", fix.explanation),
        "original_query", original)

\* the f-string of lines 78 and 131
AlsoFailed(fix) ==
    << "Tried to fix but corrected query also failed: " >> \o fix.explanation

\* lines 73-79
PreRetryFailure(retry, fix) ==
    [success |-> FALSE,
     error |-> retry.error,
     error_type |-> "invalid_join_path",
     fix_attempted |-> TRUE,
     fix_explanation |-> AlsoFailed(fix)]

\* lines 81-88
PreFixFailure(v, fix, q) ==
    [success |-> FALSE,
     error |-> v.message,
     error_type |-> "invalid_join_path",
     fix_attempted |-> TRUE,
     fix_explanation |-> fix.explanation,
     query |-> q]

\* lines 90-96
Rejected(v, q) ==
    [success |-> FALSE,
     error |-> v.message,
     error_type |-> "invalid_join_path",
     suggestion |-> format_validation_error(v),
     query |-> q]

\* lines 129-133
RetryFailure(res, fix) ==
    Put(Put(res, "fix_attempted", TRUE), "fix_explanation", AlsoFailed(fix))

\* lines 135-137
FixFailure(res, fix) ==
    Put(Put(res, "fix_attempted", TRUE), "fix_explanation", fix.explanation)

\* STEP 4 left out: the result of the failed execution as it is
NoErrorContext(res) == res

\* STEP 4, lines 139-156
BasicErrorContext(res) ==
    LET error_msg == Get(res, "error", << >>)
        parsed == parse_missing_measure_error(error_msg)
        join_error == parse_join_error(error_msg)
    IN  IF parsed # NoValue
            THEN Put(Put(res, "error_type", "missing_measure"),
                     "suggestion",
                     << "Missing measure: '" >> \o parsed.measure
                     \o << "' doesn't exist in the " >> \o parsed.cube \o << " cube." >>)
        ELSE IF join_error # NoValue
            THEN Put(Put(res, "error_type", "missing_join_path"),
                     "suggestion",
                     << "Missing join: No relationship exists between " >>
                     \o join_error.from_cube \o << " and " >> \o join_error.to_cube
                     \o << "." >>)
        ELSE res

\* one engine round-trip as recorded in engine_log; step tells the call of
\* line 102 ("execute") from those of lines 63 and 121 ("retry")
EngineCall(step, q, http) ==
    [step |-> step, query |-> q, http |-> http, result |-> execute_query(q, http)]

\* lines 50-52 and 89 without the return of lines 90-96
AfterValidationNoReject(v, has_context) ==
    IF v.valid THEN "execute"
    ELSE IF has_context THEN "pre_fix"
    ELSE "execute"

\* lines 50-52 and 89 with the repair of lines 54-88 left to STEP 3
AfterValidationNoPreFix(v, has_context) ==
    IF v.valid THEN "execute"
    ELSE IF has_context THEN "execute"
    ELSE "done"

\* lines 50-52 and 89: where the request goes after validate_query_cubes
AfterValidation(v, has_context) ==
    IF v.valid THEN "execute"
    ELSE IF has_context THEN "pre_fix"
    ELSE "done"

\* lines 61-64 and 119-121 with the proposed query pre-validated: a proposal
\* whose cubes have no join path is not executed
AfterFixValidated(fix, retry_pc) ==
    IF fix.fixed
        THEN IF "query" \notin DOMAIN fix THEN "raised"
             ELSE IF \E cubes \in Orderings(ExtractedCubes(fix.query)) :
                         InvalidPairs(relationships, cubes) # << >>
                 THEN "done"
             ELSE retry_pc
        ELSE "done"

\* lines 61-64 and 119-121: where the request goes after attempt_fix;
\* fix_result["query"] raises KeyError on a dict without that key
AfterFix(fix, retry_pc) ==
    IF fix.fixed
        THEN IF "query" \in DOMAIN fix THEN retry_pc ELSE "raised"
        ELSE "done"

\* lines 67-79 and 123-133 with a failed second execution repaired again
AfterRetryAgain(success) == IF success THEN "done" ELSE "fix"

\* lines 67-79 and 123-133: both branches after the second execution return
AfterRetry(success) == "done"

\* one attempt_fix call that is handed no error message
FixCallWithoutError(error_message, llm) ==
    [question |-> question, failed_query |-> query, error_message |-> << >>,
     schema_context |-> schema_context, llm |-> llm, result |-> attempt_fix(llm)]

\* one attempt_fix call as recorded in llm_log
FixCall(error_message, llm) ==
    [question |-> question, failed_query |-> query, error_message |-> error_message,
     schema_context |-> schema_context, llm |-> llm, result |-> attempt_fix(llm)]

\* fix_result["query"] on a dict without that key
KeyError == [type |-> "KeyError", key |-> "query"]

Init ==
    /\ relationships \in Graphs
    /\ query \in RequestQueries
    /\ question \in Questions
    /\ schema_context \in SchemaContexts
    /\ pc = "start"
    /\ validation = NoValue
    /\ result = NoValue
    /\ fix_result = NoValue
    /\ retry_result = NoValue
    /\ returned = NoValue
    /\ raised = NoValue
    /\ engine_log = << >>
    /\ llm_log = << >>
    /\ cube_list = << >>
    /\ tables = << >>
    /\ analyzer_relationships = << >>
    /\ llm_result = NoValue
    /\ healer_input = << >>
    /\ healer_parsed = NoValue
    /\ healer_join = NoValue

\* STEP 1, lines 46-99, up to the call of attempt_fix or execute_query
PreValidate ==
    /\ pc = "start"
    /\ UNCHANGED << validator_vars, analyzer_vars, healer_vars >>
    /\ \E cubes \in Orderings(ExtractedCubes(query)),
          address_order \in Orderings(ADDRESS_ENTITIES) :
        IF Len(cubes) > 1
            THEN \E related_order \in RelatedOrdersOf(relationships, cubes) :
                  LET v == validate_query_cubes(relationships, cubes,
                                                address_order, related_order)
                  IN  /\ validation' = v
                      /\ pc' = AfterValidation(v, HasContext)
                      /\ returned' = IF pc' = "done" THEN Rejected(v, query) ELSE returned
            ELSE /\ pc' = "execute"
                 /\ UNCHANGED << validation, returned >>
    /\ UNCHANGED << relationships, query, question, schema_context, result,
                    fix_result, retry_result, raised, engine_log, llm_log >>

\* lines 54-61 and 80-88: the repair call after a failed pre-validation
PreFix ==
    /\ pc = "pre_fix"
    /\ UNCHANGED << validator_vars, analyzer_vars, healer_vars >>
    /\ \E llm \in LLMOutcomes :
        LET call == FixCall(validation.message, llm) IN
        /\ fix_result' = call.result
        /\ llm_log' = Append(llm_log, call)
        /\ pc' = AfterFix(call.result, "pre_retry")
        /\ raised' = IF pc' = "raised" THEN KeyError ELSE raised
        /\ returned' = IF pc' = "done"
                           THEN PreFixFailure(validation, call.result, query)
                           ELSE returned
    /\ UNCHANGED << relationships, query, question, schema_context, validation,
                    result, retry_result, engine_log >>

\* lines 63-79: the repaired query of the pre-validation path is executed
PreRetry ==
    /\ pc = "pre_retry"
    /\ UNCHANGED << validator_vars, analyzer_vars, healer_vars >>
    /\ \E http \in HttpOutcomes(fix_result.query) :
        LET call == EngineCall("retry", fix_result.query, http) IN
        /\ engine_log' = Append(engine_log, call)
        /\ IF call.result.success
               THEN /\ retry_result' = AutoFixed(call.result, fix_result, query)
                    /\ returned' = retry_result'
               ELSE /\ retry_result' = call.result
                    /\ returned' = PreRetryFailure(call.result, fix_result)
        /\ pc' = AfterRetry(call.result.success)
    /\ UNCHANGED << relationships, query, question, schema_context, validation,
                    result, fix_result, raised, llm_log >>

\* STEP 2 without the return of lines 104-105: a successful execution with
\* context goes on to the repair step like a failed one
ExecuteThenRepair ==
    /\ pc = "execute"
    /\ UNCHANGED << validator_vars, analyzer_vars, healer_vars >>
    /\ \E http \in HttpOutcomes(query) :
        LET call == EngineCall("execute", query, http) IN
        /\ engine_log' = Append(engine_log, call)
        /\ IF HasContext
               THEN result' = call.result /\ returned' = returned /\ pc' = "fix"
               ELSE /\ result' = IF call.result.success THEN call.result
                                  ELSE BasicErrorContext(call.result)
                    /\ returned' = result'
                    /\ pc' = "done"
    /\ UNCHANGED << relationships, query, question, schema_context, validation,
                    fix_result, retry_result, raised, llm_log >>

\* STEP 2 and STEP 4, lines 102-110 and 139-156
Execute ==
    /\ pc = "execute"
    /\ UNCHANGED << validator_vars, analyzer_vars, healer_vars >>
    /\ \E http \in HttpOutcomes(query) :
        LET call == EngineCall("execute", query, http) IN
        /\ engine_log' = Append(engine_log, call)
        /\ IF call.result.success
               THEN result' = call.result /\ returned' = call.result /\ pc' = "done"
               ELSE IF HasContext
                   THEN result' = call.result /\ returned' = returned /\ pc' = "fix"
                   ELSE /\ result' = BasicErrorContext(call.result)
                        /\ returned' = result'
                        /\ pc' = "done"
    /\ UNCHANGED << relationships, query, question, schema_context, validation,
                    fix_result, retry_result, raised, llm_log >>

\* STEP 3, lines 108-119 and 134-137: the repair call after a failed execution
Fix ==
    /\ pc = "fix"
    /\ UNCHANGED << validator_vars, analyzer_vars, healer_vars >>
    /\ \E llm \in LLMOutcomes :
        LET call == FixCall(Get(result, "error", << >>), llm) IN
        /\ fix_result' = call.result
        /\ llm_log' = Append(llm_log, call)
        /\ pc' = AfterFix(call.result, "retry")
        /\ raised' = IF pc' = "raised" THEN KeyError ELSE raised
        /\ result' = IF pc' = "done" THEN FixFailure(result, call.result) ELSE result
        /\ returned' = IF pc' = "done" THEN result' ELSE returned
    /\ UNCHANGED << relationships, query, question, schema_context, validation,
                    retry_result, engine_log >>

\* lines 121-133: the repaired query is executed
Retry ==
    /\ pc = "retry"
    /\ UNCHANGED << validator_vars, analyzer_vars, healer_vars >>
    /\ \E http \in HttpOutcomes(fix_result.query) :
        LET call == EngineCall("retry", fix_result.query, http) IN
        /\ engine_log' = Append(engine_log, call)
        /\ IF call.result.success
               THEN /\ retry_result' = AutoFixed(call.result, fix_result, query)
                    /\ returned' = retry_result'
                    /\ result' = result
               ELSE /\ retry_result' = call.result
                    /\ result' = RetryFailure(result, fix_result)
                    /\ returned' = result'
        /\ pc' = AfterRetry(call.result.success)
    /\ UNCHANGED << relationships, query, question, schema_context, validation,
                    fix_result, raised, llm_log >>

Next == PreValidate \/ PreFix \/ PreRetry \/ Execute \/ Fix \/ Retry

Spec == Init /\ [][Next]_vars

-----------------------------------------------------------------------------
(* Properties of execute_query_with_fixing *)

\* the request has left the function
Terminated == pc \in { "done", "raised" }

\* validate_query_cubes ran and rejected the query
PreValidationFailed == validation # NoValue /\ ~validation.valid

\* the engine calls made for a repaired query
Reexecutions == { i \in 1..Len(engine_log) : engine_log[i].step = "retry" }

\* sub occurs in text
Contains(text, sub) ==
    \E i \in 0..(Len(text) - Len(sub)) : SubSeq(text, i + 1, i + Len(sub)) = sub

\* C1: with question and schema context supplied, a request makes at most
\* one attempt_fix call and at most one re-execution of a repaired query,
\* hence at most two engine calls, also when the re-execution fails
C1_AtMostOneRepair ==
    HasContext =>
        /\ Len(llm_log) <= 1
        /\ Cardinality(Reexecutions) <= 1
        /\ Len(engine_log) <= 2

\* C1 witness: a request with context whose repaired query failed as well
C1_Witness ==
    /\ HasContext
    /\ pc = "done"
    /\ Len(llm_log) = 1
    /\ Len(engine_log) = 2
    /\ ~engine_log[1].result.success
    /\ ~engine_log[2].result.success

\* C2: a multi-entity query that fails pre-validation without question or
\* schema context ends in a failure result with no engine call and no
\* language-model call
C2_RejectedWithoutRoundTrip ==
    (PreValidationFailed /\ ~HasContext) =>
        /\ pc = "done"
        /\ ~returned.success
        /\ engine_log = << >>
        /\ llm_log = << >>

\* C2 witness: a rejected request without context has returned
C2_Witness ==
    /\ PreValidationFailed
    /\ ~HasContext
    /\ pc = "done"
    /\ Cardinality(ExtractedCubes(query)) > 1

\* C3: whatever the engine and the language model answer, the function
\* returns a dict with a success flag and no exception leaves it
C3_NoExceptionEscapes ==
    /\ raised = NoValue
    /\ pc # "raised"
    /\ (pc = "done" => "success" \in DOMAIN returned)

\* C4: when the first execution fails, the repair yields a query and the
\* re-execution fails too, the failure result carries the error of the
\* re-execution and a note that the fix attempt also failed
C4_CarriesReexecutionError ==
    (/\ pc = "done"
     /\ ~PreValidationFailed
     /\ Len(engine_log) = 2
     /\ ~engine_log[2].result.success) =>
        /\ ~returned.success
        /\ Contains(returned.error, engine_log[2].result.error)
        /\ returned.fix_attempted
        /\ Contains(returned.fix_explanation,
                    << "Tried to fix but corrected query also failed: " >>)

\* C5: a repaired query that is re-executed successfully yields a success
\* result with the rows of the repaired query, auto_fixed, the explanation
\* of the repair and original_query equal to the query that failed
C5_AutoFixedRoundTrip ==
    (pc = "done" /\ retry_result # NoValue /\ retry_result.success) =>
        LET last == engine_log[Len(engine_log)] IN
        /\ returned.success
        /\ last.step = "retry"
        /\ last.query = fix_result.query
        /\ returned.data = Rows(fix_result.query, returned.count)
        /\ returned.data = Get(last.http.body.json.v, "data",
                               [t |-> "list", v |-> << >>]).v
        /\ returned.auto_fixed
        /\ returned.fix_explanation = llm_log[1].result.explanation
        /\ returned.original_query = llm_log[1].failed_query
        /\ returned.original_query = query

\* C5 witness: an engine failure repaired and re-executed with rows
C5_Witness ==
    /\ pc = "done"
    /\ retry_result # NoValue
    /\ retry_result.success
    /\ Len(engine_log) = 2
    /\ Len(returned.data) > 0
    /\ returned.fix_explanation # << >>

\* C6 as claimed: an engine call runs in every request, except where
\* pre-validation rejected the query and no repair context was supplied
C6_ExecuteAlwaysRuns ==
    (pc = "done" /\ ~(PreValidationFailed /\ ~HasContext)) => engine_log # << >>

\* attempt_fix was not called or did not return a fixed query
NoFixedQuery ==
    \/ fix_result = NoValue
    \/ ~fix_result.fixed
    \/ "query" \notin DOMAIN fix_result

\* C6 amended: a request ends without an engine call exactly when
\* pre-validation rejected the query and either no repair context was
\* supplied or the repair call did not return a fixed query
C6_ExecuteUnlessRejected ==
    Terminated =>
        (engine_log = << >> <=> (PreValidationFailed /\ (~HasContext \/ NoFixedQuery)))

\* C6 witness: rejected with context, the repair reported unfixable
C6_Witness ==
    /\ pc = "done"
    /\ PreValidationFailed
    /\ HasContext
    /\ ~fix_result.fixed
    /\ engine_log = << >>

\* the error the request first met: the validator message or the error of
\* the first execution
OriginalError ==
    IF PreValidationFailed THEN validation.message ELSE engine_log[1].result.error

\* C7: every failure result carries the original error text and, when a
\* repair was attempted, fix_attempted with a fix explanation
C7_CarriesOriginalError ==
    (pc = "done" /\ ~returned.success) =>
        /\ Contains(returned.error, OriginalError)
        /\ (llm_log # << >> =>
               /\ "fix_attempted" \in DOMAIN returned
               /\ returned.fix_attempted
               /\ "fix_explanation" \in DOMAIN returned)

\* C8: whenever attempt_fix returns fixed = true the result has a query
C8_FixedHasQuery ==
    \A i \in 1..Len(llm_log) :
        llm_log[i].result.fixed => "query" \in DOMAIN llm_log[i].result

\* the answer has a line FIXED: true
MarkedFixed(llm) ==
    /\ llm.kind = "text"
    /\ \E i \in 1..(Len(llm.content) - 2) :
          /\ llm.content[i] = "FIXED:"
          /\ Lower(llm.content[i + 2]) = "true"

\* the answer holds a JSON object
HasJsonObject(content) ==
    \E i, j \in 1..Len(content) : i < j /\ JsonLoads(SubSeq(content, i, j)).ok

\* the answer proposes a query (a QUERY: section or an opened object) of
\* which no JSON object can be parsed
UnparsableProposal(llm) ==
    /\ llm.kind = "text"
    /\ (Find(llm.content, "QUERY:") # 0 \/ Find(llm.content, "{") # 0)
    /\ ~HasJsonObject(llm.content)

\* C9: an answer marked fixed whose proposed JSON cannot be parsed yields
\* fixed = false, an explanation noting the invalid JSON and no query; a
\* failed model call yields fixed = false as well
C9_MalformedFixDowngraded ==
    \A i \in 1..Len(llm_log) :
        LET call == llm_log[i] IN
        /\ (MarkedFixed(call.llm) /\ UnparsableProposal(call.llm)) =>
               /\ ~call.result.fixed
               /\ "query" \notin DOMAIN call.result
               /\ Contains(call.result.explanation,
                           << "LLM suggested a fix but generated invalid JSON: " >>)
        /\ call.llm.kind = "raise" =>
               /\ ~call.result.fixed
               /\ "query" \notin DOMAIN call.result

\* the response is 2xx and its body a JSON object without an error key
CleanResponse(http) ==
    /\ http.kind = "response"
    /\ http.status \in 200..299
    /\ http.body.json.t = "dict"
    /\ "error" \notin DOMAIN http.body.json.v

\* C10: execute_query returns a result for every outcome of the request:
\* a transport error, a non-2xx response, a 2xx body with an error key and a
\* body that is no JSON each give success = false with an error message, and
\* success = true comes only from a 2xx body without an error key, with
\* count the number of rows of that body
C10_ExecutorNormalizes ==
    \A i \in 1..Len(engine_log) :
        LET http == engine_log[i].http
            res == engine_log[i].result
        IN  /\ "success" \in DOMAIN res
            /\ ~CleanResponse(http) =>
                   /\ ~res.success
                   /\ "error" \in DOMAIN res
                   /\ res.error # << >>
            /\ (/\ http.kind = "response"
                /\ http.status \in 200..299
                /\ http.body.json.t = "dict"
                /\ "error" \in DOMAIN http.body.json.v) =>
                   res.error = http.body.json.v["error"]
            /\ res.success =>
                   /\ CleanResponse(http)
                   /\ res.count = Len(res.data)
                   /\ res.data = Get(http.body.json.v, "data",
                                     [t |-> "list", v |-> << >>]).v
                   /\ res.query = engine_log[i].query

\* C10 witness: a transport error, then a response with rows
C10_Witness ==
    /\ Len(engine_log) = 2
    /\ engine_log[1].http.kind = "transport"
    /\ ~engine_log[1].result.success
    /\ engine_log[2].result.success
    /\ engine_log[2].result.count > 0

-----------------------------------------------------------------------------
(* validate_query_cubes called on its own, schema_validator.py 27-75 *)

\* the relationship graph handed to the validator holds at most
\* MaxGraphEdges relationships
MaxGraphEdges == 4

\* relationships as DATABASE_SCHEMA.md may spell them: (from, to) keys of
\* SchemaRelationshipParser.relationships
SchemaGraphs ==
    LET SchemaEdges ==
            { << "FILM", "ACTOR" >>, << "ACTOR", "ADDRESS" >>, << "CUSTOMER", "ADDRESS" >>,
              << "STORE", "CUSTOMER" >>, << "FILM", "ADDRESS" >>, << "Order", "Customer" >> }
    IN  UNION { { g \in [1..n -> SchemaEdges] : \A i, j \in 1..n : g[i] = g[j] => i = j } :
                  n \in 0..MaxGraphEdges }

\* cube names as queries spell them
CubeNames == { "Film", "Actor", "Address", "Customer", "Store", "Order" }

\* the lists extract_cubes_from_query may return: distinct names
CubeLists ==
    { << a >> : a \in CubeNames }
    \cup { << a, b >> : << a, b >> \in { p \in CubeNames \X CubeNames : p[1] # p[2] } }
    \cup { o \in [1..3 -> { "Film", "Actor", "Order" }] :
              \A i, j \in 1..3 : o[i] = o[j] => i = j }

ValidatorInit ==
    /\ relationships \in SchemaGraphs
    /\ cube_list \in CubeLists
    /\ pc = "start"
    /\ validation = NoValue
    /\ query = NoValue
    /\ question = NoValue
    /\ schema_context = NoValue
    /\ result = NoValue
    /\ fix_result = NoValue
    /\ retry_result = NoValue
    /\ returned = NoValue
    /\ raised = NoValue
    /\ engine_log = << >>
    /\ llm_log = << >>
    /\ tables = << >>
    /\ analyzer_relationships = << >>
    /\ llm_result = NoValue
    /\ healer_input = << >>
    /\ healer_parsed = NoValue
    /\ healer_join = NoValue

\* one call validate_query_cubes(cubes), lines 27-75
Validate ==
    /\ pc = "start"
    /\ \E address_order \in Orderings(ADDRESS_ENTITIES),
          related_order \in RelatedOrdersOf(relationships, cube_list) :
        validation' = validate_query_cubes(relationships, cube_list,
                                           address_order, related_order)
    /\ pc' = "done"
    /\ UNCHANGED << relationships, query, question, schema_context, result,
                    fix_result, retry_result, returned, raised, engine_log,
                    llm_log, validator_vars, analyzer_vars, healer_vars >>

ValidatorNext == Validate

ValidatorSpec == ValidatorInit /\ [][ValidatorNext]_vars

-----------------------------------------------------------------------------
(* Properties of validate_query_cubes and get_join_path *)

RECURSIVE Within(_, _, _)
\* the entities at most n relationships away from entity a, relationships
\* taken in both directions and names compared without regard to case
Within(rels, a, n) ==
    IF n = 0 THEN { Upper(a) }
    ELSE LET W == Within(rels, a, n - 1)
         IN  W \cup { Upper(rels[i][2]) : i \in { k \in 1..Len(rels) : Upper(rels[k][1]) \in W } }
               \cup { Upper(rels[i][1]) : i \in { k \in 1..Len(rels) : Upper(rels[k][2]) \in W } }

\* the number of edges of a shortest path between a and b, -1 when there is
\* no path
Hops(rels, a, b) ==
    IF Upper(b) \notin Within(rels, a, Len(rels)) THEN -1
    ELSE CHOOSE n \in 0..Len(rels) :
             /\ Upper(b) \in Within(rels, a, n)
             /\ n > 0 => Upper(b) \notin Within(rels, a, n - 1)

\* a direct call of validate_query_cubes has returned
Validated == pc = "done" /\ cube_list # << >>

\* C11: for every graph and every queried pair whose shortest connecting path
\* has k <= 3 edges, validate_query_cubes returns valid without a warning; a
\* warning is returned only when k > 3.
C11_ShortPathsNoWarning ==
    (Validated /\ Len(cube_list) = 2) =>
        LET k == Hops(relationships, cube_list[1], cube_list[2]) IN
        /\ (k >= 0 /\ k <= 3) => (validation.valid /\ "warning" \notin DOMAIN validation)
        /\ "warning" \in DOMAIN validation => k > 3

\* some pair of the queried cubes has no connecting path
SomePairUnconnected ==
    \E i, j \in 1..Len(cube_list) :
        i < j /\ Hops(relationships, cube_list[i], cube_list[j]) = -1

\* C12: for every non-empty graph and every queried entity set containing a
\* pair with no connecting path, validate_query_cubes returns valid = false
\* and its suggestions contain at least one of type separate_queries.
C12_NoPathSuggestsSeparate ==
    (Validated /\ relationships # << >> /\ SomePairUnconnected) =>
        /\ ~validation.valid
        /\ \E i \in 1..Len(validation.suggestions) :
               validation.suggestions[i].type = "separate_queries"

\* three cubes queried on a non-empty graph, one pair unconnected, and the
\* rejection carries an alternative entity, the separate-queries advice and
\* the related entities
C12_Witness ==
    /\ Validated
    /\ relationships # << >>
    /\ Len(cube_list) = 3
    /\ SomePairUnconnected
    /\ ~validation.valid
    /\ \E i \in 1..Len(validation.suggestions) :
           validation.suggestions[i].type = "separate_queries"
    /\ \E i \in 1..Len(validation.suggestions) :
           validation.suggestions[i].type = "related_entities"

\* the query names more than one cube
MultiEntity == Cardinality(ExtractedCubes(query)) > 1

\* C13: when the relationship graph has no edges, validation of a
\* multi-entity query is skipped and the query is treated as valid: the
\* request goes on to the engine and is neither rejected nor repaired first.
C13_EmptyGraphSkipsValidation ==
    (query # NoValue /\ relationships = << >> /\ MultiEntity /\ pc # "start") =>
        /\ validation = NoValue \/ validation.valid
        /\ pc \notin { "pre_fix", "pre_retry" }
        /\ Terminated => engine_log # << >>

\* C14: for entities Order and Customer joined by one edge stored in mixed
\* case, querying both validates and the join path found is exactly
\* [Order, Customer].
C14_MixedCaseEdgeValidates ==
    (/\ Validated
     /\ relationships = << << "Order", "Customer" >> >>
     /\ cube_list = << "Order", "Customer" >>) =>
        /\ validation.valid
        /\ get_join_path(relationships, "Order", "Customer")
             = [t |-> "list", v |-> << "Order", "Customer" >>]

-----------------------------------------------------------------------------
(* RelationshipAnalyzer, semantic_layer/relationship_analyzer.py *)
(* A name is text: "customer_id" is << "cust", "omer", "_id" >>.           *)

\* str.lower() and str.upper() on one token of a name or description
LowerToken(tok) ==
    CASE tok = "City" -> "city"
      [] tok = "_ID" -> "_id"
      [] tok = "FACT" -> "fact"
      [] tok = "DIMENSION" -> "dimension"
      [] OTHER -> tok

UpperToken(tok) ==
    CASE tok = "fact" -> "FACT"
      [] tok = "Fact" -> "FACT"
      [] tok = "dimension" -> "DIMENSION"
      [] OTHER -> tok

\* str.lower() and str.upper() on text
LowerText(s) == [i \in 1..Len(s) |-> LowerToken(s[i])]

UpperText(s) == [i \in 1..Len(s) |-> UpperToken(s[i])]

\* s.endswith("_id")
EndsWithId(s) == s # << >> /\ s[Len(s)] = "_id"

\* s.startswith(prefix) on text
StartsWithText(s, prefix) ==
    Len(prefix) <= Len(s) /\ SubSeq(s, 1, Len(prefix)) = prefix

\* a float, in hundredths: 0.8 is Float(80)
Float(hundredths) == [t |-> "float", v |-> hundredths]

\* float("nan"), which json.loads returns for the literal NaN
NaN == [t |-> "nan"]

\* a < b on two values that are floats or NaN: every comparison with NaN is
\* false
LessThan(a, b) == a.t = "float" /\ b.t = "float" /\ a.v < b.v

\* _extract_semantic_type(table_data), lines 87-101, for metadata without tags
_extract_semantic_type(table_data) ==
    LET description == UpperText(Get(table_data, "description", << >>))
        hints == << "FACT", "DIMENSION", "TRANSACTION", "MASTER", "LOOKUP" >>
        found == SelectSeq(hints, LAMBDA h : \E i \in 1..Len(description) : description[i] = h)
    IN  IF found # << >> THEN found[1] ELSE "UNKNOWN"

\* TableInfo.is_fact, lines 28-34
is_fact(table) == table.semantic_type \in { "FACT", "TRANSACTION" }

\* TableInfo.is_dimension, lines 36-43
is_dimension(table) == table.semantic_type \in { "DIMENSION", "MASTER", "LOOKUP" }

\* the TableInfo add_table builds, lines 68-82
TableInfoOf(table_data) ==
    [name |-> Get(table_data, "name", << >>),
     table_type |-> Get(table_data, "tableType", "Regular"),
     columns |-> Get(table_data, "columns", << >>),
     constraints |-> Get(table_data, "tableConstraints", << >>),
     semantic_type |-> _extract_semantic_type(table_data)]

\* self.tables[table_info.name] = table_info, line 84: a dict keeps the
\* position of a key that is assigned again
add_table(tbls, table_data) ==
    LET info == TableInfoOf(table_data) IN
    IF \E i \in 1..Len(tbls) : tbls[i].name = info.name
        THEN [i \in 1..Len(tbls) |-> IF tbls[i].name = info.name THEN info ELSE tbls[i]]
        ELSE Append(tbls, info)

\* self.tables.keys() as a set
TableNames(tbls) == { tbls[i].name : i \in 1..Len(tbls) }

\* self.tables.get(name): NoValue for None
TableGet(tbls, name) ==
    IF name \in TableNames(tbls)
        THEN tbls[CHOOSE i \in 1..Len(tbls) : tbls[i].name = name]
        ELSE NoValue

\* _infer_relationship_type(from_table, to_table_name), lines 165-182
_infer_relationship_type(tbls, from_table, to_table_name) ==
    LET to_table == TableGet(tbls, to_table_name) IN
    IF is_fact(from_table) /\ to_table # NoValue /\ is_dimension(to_table)
        THEN "belongsTo"
    ELSE IF is_dimension(from_table) /\ to_table # NoValue /\ is_fact(to_table)
        THEN "hasMany"
    ELSE "belongsTo"

\* confidence of a relationship read from a declared foreign key, as the
\* naming-pattern analysis would rate it
ForeignKeyConfidenceAsPattern == Float(80)

\* line 156: confidence=1.0
ForeignKeyConfidence == Float(100)

\* lines 121-141: the (ref_table, ref_column) read from one entry of
\* referredColumns; NoValue when its type is neither str nor dict
ReferredColumn(ref_col_data) ==
    IF ref_col_data.t \notin { "str", "dict" } THEN NoValue
    ELSE LET ref_fqn == IF ref_col_data.t = "str" THEN ref_col_data.v
                        ELSE Get(ref_col_data.v, "fullyQualifiedName", << >>)
             ref_parts == Split(ref_fqn, ".")
             named == IF ref_col_data.t = "str"
                          THEN ref_parts[Len(ref_parts)]
                          ELSE Get(ref_col_data.v, "name", << >>)
         IN  [ref_table |-> IF Len(ref_parts) >= 2 THEN ref_parts[Len(ref_parts) - 1]
                            ELSE << >>,
              ref_column |-> IF named # << >> THEN named ELSE ref_parts[Len(ref_parts)]]

RECURSIVE ZipForeignKey(_, _, _, _, _)
\* lines 120-159: the loop over zip(from_cols, referred_cols), from pair i on
ZipForeignKey(rels, tbls, table_info, constraint, i) ==
    LET from_cols == Get(constraint, "columns", << >>)
        referred_cols == Get(constraint, "referredColumns", << >>)
    IN  IF i > Len(from_cols) \/ i > Len(referred_cols) THEN rels
        ELSE LET ref == ReferredColumn(referred_cols[i])
                 skip == ref = NoValue \/ ref.ref_table = << >>
                 rel == [from_table |-> table_info.name,
                         from_column |-> from_cols[i],
                         to_table |-> ref.ref_table,
                         to_column |-> ref.ref_column,
                         relationship_type |->
                             _infer_relationship_type(tbls, table_info, ref.ref_table),
                         confidence |-> ForeignKeyConfidence,
                         source |-> "foreign_key"]
             IN  ZipForeignKey(IF skip THEN rels ELSE Append(rels, rel),
                               tbls, table_info, constraint, i + 1)

\* _add_foreign_key_relationship with the check of lines 205-210 put before
\* it: nothing is added for a column of the table that the list already
\* relates
AddForeignKeyUnlessExisting(rels, tbls, table_info, constraint) ==
    IF \/ Get(constraint, "columns", << >>) = << >>
       \/ Get(constraint, "referredColumns", << >>) = << >>
       \/ \E i \in 1..Len(rels), k \in 1..Len(constraint.columns) :
              /\ rels[i].from_table = table_info.name
              /\ rels[i].from_column = constraint.columns[k]
        THEN rels
        ELSE ZipForeignKey(rels, tbls, table_info, constraint, 1)

\* _add_foreign_key_relationship(table_info, constraint), lines 110-163
_add_foreign_key_relationship(rels, tbls, table_info, constraint) ==
    IF Get(constraint, "columns", << >>) = << >>
       \/ Get(constraint, "referredColumns", << >>) = << >>
        THEN rels
        ELSE ZipForeignKey(rels, tbls, table_info, constraint, 1)

RECURSIVE ForeignKeysOfTable(_, _, _, _)
\* lines 106-108: the loop over table_info.constraints, from constraint j on
ForeignKeysOfTable(rels, tbls, table_info, j) ==
    IF j > Len(table_info.constraints) THEN rels
    ELSE LET constraint == table_info.constraints[j]
             next == IF Get(constraint, "constraintType", "") = "FOREIGN_KEY"
                         THEN _add_foreign_key_relationship(rels, tbls, table_info, constraint)
                         ELSE rels
         IN ForeignKeysOfTable(next, tbls, table_info, j + 1)

RECURSIVE ForeignKeysFrom(_, _, _)
\* lines 105-108: the loop over self.tables.values(), from table i on
ForeignKeysFrom(rels, tbls, i) ==
    IF i > Len(tbls) THEN rels
    ELSE ForeignKeysFrom(ForeignKeysOfTable(rels, tbls, tbls[i], 1), tbls, i + 1)

\* analyze_foreign_keys(), lines 103-108: self.relationships afterwards
analyze_foreign_keys(rels, tbls) == ForeignKeysFrom(rels, tbls, 1)


\* _infer_pk_column(table), lines 237-251
_infer_pk_column(table) ==
    LET keyed == SelectSeq(table.columns,
                           LAMBDA col : Get(col, "constraint", "") = "PRIMARY_KEY")
        patterned == SelectSeq(table.columns,
                               LAMBDA col : LowerText(Get(col, "name", << >>))
                                   \in { << "id" >>, LowerText(table.name) \o << "_id" >> })
    IN  IF keyed # << >> THEN Get(keyed[1], "name", << >>)
        ELSE IF patterned # << >> THEN Get(patterned[1], "name", << >>)
        ELSE IF table.columns # << >> THEN Get(table.columns[1], "name", << "id" >>)
        ELSE << "id" >>

\* lines 205-210 replaced by existing = False
ExistingNever(rels, from_name, column_name, table_name) == FALSE

\* lines 205-210: any(...) over self.relationships
ExistingRelationship(rels, from_name, column_name, table_name) ==
    \E i \in 1..Len(rels) :
        /\ rels[i].from_table = from_name
        /\ rels[i].from_column = column_name
        /\ rels[i].to_table = table_name

RECURSIVE MatchTablesFrom(_, _, _, _, _, _)
\* lines 200-235: the loop over self.tables.keys(), from table k on
MatchTablesFrom(rels, tbls, from_table, column, potential_table, k) ==
    IF k > Len(tbls) THEN rels
    ELSE LET table_name == tbls[k].name
             matches == \/ LowerText(table_name) = potential_table
                        \/ StartsWithText(LowerText(table_name), potential_table)
             existing == ExistingRelationship(rels, from_table.name,
                                              Get(column, "name", << >>), table_name)
             rel == [from_table |-> from_table.name,
                     from_column |-> Get(column, "name", << >>),
                     to_table |-> table_name,
                     to_column |-> _infer_pk_column(tbls[k]),
                     relationship_type |->
                         _infer_relationship_type(tbls, from_table, table_name),
                     confidence |-> Float(80),
                     source |-> "naming_pattern"]
         IN  MatchTablesFrom(IF matches /\ ~existing THEN Append(rels, rel) ELSE rels,
                             tbls, from_table, column, potential_table, k + 1)

\* _check_naming_pattern_match(from_table, column, potential_table), lines 195-235
_check_naming_pattern_match(rels, tbls, from_table, column, potential_table) ==
    MatchTablesFrom(rels, tbls, from_table, column, potential_table, 1)

RECURSIVE NamingPatternsOfTable(_, _, _, _)
\* lines 187-193: the loop over table_info.columns, from column j on
NamingPatternsOfTable(rels, tbls, table_info, j) ==
    IF j > Len(table_info.columns) THEN rels
    ELSE LET col == table_info.columns[j]
             col_name == LowerText(Get(col, "name", << >>))
             next == IF EndsWithId(col_name)
                         THEN _check_naming_pattern_match(rels, tbls, table_info, col,
                                  SubSeq(col_name, 1, Len(col_name) - 1))
                         ELSE rels
         IN NamingPatternsOfTable(next, tbls, table_info, j + 1)

RECURSIVE NamingPatternsFrom(_, _, _)
\* lines 186-193: the loop over self.tables.values(), from table i on
NamingPatternsFrom(rels, tbls, i) ==
    IF i > Len(tbls) THEN rels
    ELSE NamingPatternsFrom(NamingPatternsOfTable(rels, tbls, tbls[i], 1), tbls, i + 1)

\* analyze_naming_patterns(), lines 184-193: self.relationships afterwards
analyze_naming_patterns(rels, tbls) == NamingPatternsFrom(rels, tbls, 1)


-----------------------------------------------------------------------------
(* RelationshipInferenceEngine, semantic_layer/llm_inference.py *)

\* _empty_result(), lines 128-134
_empty_result ==
    [additional_relationships |-> << >>,
     common_join_paths |-> << >>,
     suggested_metrics |-> << >>]

\* dict.setdefault(k, v)
SetDefault(d, k, v) == IF k \in DOMAIN d THEN d ELSE Put(d, k, v)

\* infer_relationships(schema_context), lines 85-126, on what
\* llm_client.generate did: raised, or returned a parsed JSON value
infer_relationships(llm) ==
    IF llm.kind = "raise" THEN _empty_result
    ELSE IF llm.kind # "dict" THEN _empty_result
    ELSE SetDefault(SetDefault(SetDefault(llm.v, "additional_relationships", << >>),
                               "common_join_paths", << >>),
                    "suggested_metrics", << >>)

\* the fields validate_relationships requires, line 155
RequiredFields ==
    { "from_table", "from_column", "to_table", "to_column", "relationship_type" }

\* line 170
RelationshipTypes == { "belongsTo", "hasMany", "hasOne" }

\* line 178: 0.7
ConfidenceThreshold == Float(70)

\* lines 152-174: the checks made before the confidence is read
PassesFieldChecks(rel, available_tables) ==
    /\ RequiredFields \subseteq DOMAIN rel
    /\ rel.from_table \in available_tables
    /\ rel.to_table \in available_tables
    /\ rel.relationship_type \in RelationshipTypes

RECURSIVE ValidateFrom(_, _, _, _)
\* lines 151-185: the loop over relationships, from element i on; confidence < 0.7
\* raises TypeError when confidence is neither a number nor NaN (None, a string)
ValidateFrom(relationships_in, available_tables, i, valid) ==
    IF i > Len(relationships_in) THEN [t |-> "list", v |-> valid]
    ELSE LET rel == relationships_in[i]
             confidence == Get(rel, "confidence", Float(0))
         IN  IF ~PassesFieldChecks(rel, available_tables)
                 THEN ValidateFrom(relationships_in, available_tables, i + 1, valid)
             ELSE IF confidence.t \notin { "float", "nan" }
                 THEN [t |-> "TypeError"]
             ELSE IF LessThan(confidence, ConfidenceThreshold)
                 THEN ValidateFrom(relationships_in, available_tables, i + 1, valid)
             ELSE ValidateFrom(relationships_in, available_tables, i + 1,
                               Append(valid, rel))

\* validate_relationships(relationships, available_tables), lines 136-188
validate_relationships(relationships_in, available_tables) ==
    ValidateFrom(relationships_in, available_tables, 1, << >>)

-----------------------------------------------------------------------------
(* SemanticLayerPipeline.run, semantic_layer/pipeline.py 57-106 *)

\* lines 95-103: the Relationship built from one validated suggestion
InferredRelationship(rel_data) ==
    [from_table |-> rel_data.from_table,
     from_column |-> rel_data.from_column,
     to_table |-> rel_data.to_table,
     to_column |-> rel_data.to_column,
     relationship_type |-> rel_data.relationship_type,
     confidence |-> Get(rel_data, "confidence", Float(80)),
     source |-> "llm_inference"]

RECURSIVE AddTablesFrom(_, _, _)
\* lines 73-74: the loop over the fetched tables, from table i on
AddTablesFrom(tbls, fetched, i) ==
    IF i > Len(fetched) THEN tbls
    ELSE AddTablesFrom(add_table(tbls, fetched[i]), fetched, i + 1)

\* lines 67-68: the filter applied when views are excluded
WithoutViews(fetched, include_views) ==
    IF include_views THEN fetched
    ELSE SelectSeq(fetched, LAMBDA t : "tableType" \notin DOMAIN t \/ t.tableType # "View")


\* run() fetches at most MaxTables tables
MaxTables == 3

\* the model suggests at most MaxSuggestions relationships
MaxSuggestions == 2

\* names of tables and columns
CustomerName == << "cust", "omer" >>

CityName == << "city" >>

CustomerIdColumn == << "cust", "omer", "_id" >>

CityIdColumn == << "city", "_id" >>

\* a FOREIGN_KEY entry of tableConstraints on the given columns
ForeignKey(from_cols, referred) ==
    [constraintType |-> "FOREIGN_KEY", columns |-> from_cols, referredColumns |-> referred]

\* the tableConstraints a customer table may come with
CustomerConstraints ==
    LET CityIdFqn == << "svc", ".", "db", ".", "public", ".", "city", ".", "city", "_id" >>
        CountryIdFqn ==
            << "svc", ".", "db", ".", "public", ".", "country", ".", "country", "_id" >>
    IN
    { << >>,
      \* referred column in the standard dict format
      << ForeignKey(<< CityIdColumn >>,
                    << [t |-> "dict", v |-> [fullyQualifiedName |-> CityIdFqn,
                                             name |-> CityIdColumn]] >>) >>,
      \* referred column in the legacy string format, after a primary key
      << [constraintType |-> "PRIMARY_KEY", columns |-> << CustomerIdColumn >>],
         ForeignKey(<< CityIdColumn >>, << [t |-> "str", v |-> CityIdFqn] >>) >>,
      \* referredColumns missing
      << [constraintType |-> "FOREIGN_KEY", columns |-> << CityIdColumn >>] >>,
      \* referred column without its fully qualified name
      << ForeignKey(<< CityIdColumn >>,
                    << [t |-> "dict", v |-> [name |-> CityIdColumn]] >>) >>,
      \* referred column that is neither a string nor a dict
      << ForeignKey(<< CityIdColumn >>, << [t |-> "int", v |-> 7] >>) >>,
      \* a key into a table of another service
      << ForeignKey(<< << "country", "_id" >> >>,
                    << [t |-> "dict", v |-> [fullyQualifiedName |-> CountryIdFqn,
                                             name |-> << "country", "_id" >>]] >>) >> }

\* the table_data dicts list_tables may return
TableData ==
    LET
        CustomerColumns ==
            << [name |-> CustomerIdColumn, constraint |-> "PRIMARY_KEY"],
               [name |-> CityIdColumn],
               [name |-> << "name" >>] >>

        CustomerTables ==
            { [name |-> CustomerName, tableType |-> "Regular", columns |-> CustomerColumns,
               tableConstraints |-> c, description |-> << >>] : c \in CustomerConstraints }
            \cup { [name |-> CustomerName, columns |-> CustomerColumns,
                    tableConstraints |-> CHOOSE c \in CustomerConstraints :
                        Len(c) = 1 /\ "referredColumns" \in DOMAIN c[1]
                        /\ c[1].referredColumns[1].t = "dict"
                        /\ "fullyQualifiedName" \in DOMAIN c[1].referredColumns[1].v
                        /\ c[1].columns = << CityIdColumn >>,
                    description |-> << "Fact", " table of customers" >>] }

        CityTables ==
            { [name |-> CityName, tableType |-> "Regular",
               columns |-> << [name |-> CityIdColumn, constraint |-> "PRIMARY_KEY"],
                              [name |-> << "name" >>] >>,
               description |-> << >>],
              [name |-> << "City" >>, tableType |-> "Regular",
               columns |-> << [name |-> << "id" >>], [name |-> << "name" >>] >>,
               description |-> << "dimension", " of cities" >>],
              [name |-> CityName, tableType |-> "Regular",
               columns |-> << [name |-> << "name" >>], [name |-> << "cust", "_ID" >>] >>,
               description |-> << "dimension", " of cities" >>] }

        ViewTables ==
            { [name |-> << "cust", "omer", "_list" >>, tableType |-> "View",
               columns |-> << [name |-> << "id" >>], [name |-> CityIdColumn] >>] }
    IN  CustomerTables \cup CityTables \cup ViewTables

\* what om_client.list_tables may return: tables with distinct names
FetchedTables ==
    UNION { { f \in [1..n -> TableData] : \A i, j \in 1..n : f[i].name = f[j].name => i = j } :
              n \in 0..MaxTables }

\* the entries the model may put in additional_relationships
GoodSuggestion ==
    [from_table |-> CustomerName, from_column |-> CityIdColumn,
     to_table |-> CityName, to_column |-> CityIdColumn,
     relationship_type |-> "belongsTo", confidence |-> Float(90)]

\* d without the key k
Without(d, k) == [x \in DOMAIN d \ { k } |-> d[x]]

Suggestions ==
    { GoodSuggestion,
      [GoodSuggestion EXCEPT !.from_table = CityName, !.from_column = << "cust", "_ID" >>,
                             !.to_table = CustomerName, !.to_column = CustomerIdColumn,
                             !.relationship_type = "hasMany", !.confidence = Float(70)],
      [GoodSuggestion EXCEPT !.confidence = Float(69)],
      [GoodSuggestion EXCEPT !.confidence = NaN],
      [GoodSuggestion EXCEPT !.confidence = [t |-> "null"]],
      Without(GoodSuggestion, "confidence"),
      Without(GoodSuggestion, "to_column"),
      [GoodSuggestion EXCEPT !.to_table = << "country" >>],
      [GoodSuggestion EXCEPT !.from_table = << "country" >>],
      [GoodSuggestion EXCEPT !.relationship_type = "manyToMany"] }

\* what llm_client.generate may do
InferenceOutcomes ==
    { [kind |-> "raise"], [kind |-> "list"],
      [kind |-> "dict", v |-> [common_join_paths |-> << >>]] }
    \cup { [kind |-> "dict", v |-> [additional_relationships |-> l]] : l \in UNION { [1..n -> Suggestions] : n \in 0..MaxSuggestions } }

\* confidence < 0.7 on None
TypeError == [type |-> "TypeError"]

AnalyzerInit ==
    /\ tables = << >>
    /\ analyzer_relationships = << >>
    /\ llm_result = NoValue
    /\ pc = "start"
    /\ raised = NoValue
    /\ relationships = << >>
    /\ cube_list = << >>
    /\ validation = NoValue
    /\ query = NoValue
    /\ question = NoValue
    /\ schema_context = NoValue
    /\ result = NoValue
    /\ fix_result = NoValue
    /\ retry_result = NoValue
    /\ returned = NoValue
    /\ engine_log = << >>
    /\ llm_log = << >>
    /\ healer_input = << >>
    /\ healer_parsed = NoValue
    /\ healer_join = NoValue

\* the variables the pipeline does not touch
outside_pipeline ==
    << relationships, query, question, schema_context, validation, result,
       fix_result, retry_result, returned, engine_log, llm_log, validator_vars,
       healer_vars >>

\* lines 63-74: fetch the tables and add them to the analyzer
AddTables ==
    /\ pc = "start"
    /\ \E fetched \in FetchedTables, include_views \in BOOLEAN :
        tables' = AddTablesFrom(tables, WithoutViews(fetched, include_views), 1)
    /\ pc' = "foreign_keys"
    /\ UNCHANGED << analyzer_relationships, llm_result, raised, outside_pipeline >>

\* line 76
AnalyzeForeignKeys ==
    /\ pc = "foreign_keys"
    /\ analyzer_relationships' = analyze_foreign_keys(analyzer_relationships, tables)
    /\ pc' = "naming_patterns"
    /\ UNCHANGED << tables, llm_result, raised, outside_pipeline >>

\* line 77
AnalyzeNamingPatterns ==
    /\ pc = "naming_patterns"
    /\ analyzer_relationships' = analyze_naming_patterns(analyzer_relationships, tables)
    /\ pc' = "infer"
    /\ UNCHANGED << tables, llm_result, raised, outside_pipeline >>

\* lines 83-85
InferRelationships ==
    /\ pc = "infer"
    /\ \E llm \in InferenceOutcomes : llm_result' = infer_relationships(llm)
    /\ pc' = "admit"
    /\ UNCHANGED << tables, analyzer_relationships, raised, outside_pipeline >>

\* lines 88-104: validate the suggestions and append the admitted ones
AdmitRelationships ==
    /\ pc = "admit"
    /\ LET validated == validate_relationships(llm_result.additional_relationships,
                                               TableNames(tables))
       IN  IF validated.t = "TypeError"
               THEN /\ raised' = TypeError
                    /\ pc' = "raised"
                    /\ UNCHANGED analyzer_relationships
               ELSE /\ analyzer_relationships' = analyzer_relationships
                         \o [i \in 1..Len(validated.v) |-> InferredRelationship(validated.v[i])]
                    /\ pc' = "done"
                    /\ UNCHANGED raised
    /\ UNCHANGED << tables, llm_result, outside_pipeline >>

AnalyzerNext ==
    \/ AddTables
    \/ AnalyzeForeignKeys
    \/ AnalyzeNamingPatterns
    \/ InferRelationships
    \/ AdmitRelationships

AnalyzerSpec == AnalyzerInit /\ [][AnalyzerNext]_vars

-----------------------------------------------------------------------------
(* Properties of the relationship-graph build *)

\* the positions of the relationships of a list that come from a source
FromSource(rels, source) == { i \in 1..Len(rels) : rels[i].source = source }

\* a >= b on floats; false when either side is NaN
AtLeast(a, b) == a.t = "float" /\ b.t = "float" /\ a.v >= b.v

\* the (from_table, from_column, to_table) triple of a relationship
Triple(r) == << r.from_table, r.from_column, r.to_table >>

\* analyze_naming_patterns has run
NamingAnalysed == pc \in { "infer", "admit", "done", "raised" } /\ tables # << >>

\* C15: every relationship with source foreign_key has confidence 1.0, and
\* running analyze_naming_patterns never removes or alters a foreign_key
\* relationship already in the list.
C15_ForeignKeysKept ==
    /\ [](\A i \in FromSource(analyzer_relationships, "foreign_key") :
              analyzer_relationships[i].confidence = Float(100))
    /\ [][pc = "naming_patterns" =>
              /\ \A i \in FromSource(analyzer_relationships, "foreign_key") :
                     /\ i <= Len(analyzer_relationships')
                     /\ analyzer_relationships'[i] = analyzer_relationships[i]
              /\ FromSource(analyzer_relationships', "foreign_key")
                     = FromSource(analyzer_relationships, "foreign_key")]_vars

\* the naming-pattern analysis has run on a list that held a foreign key and
\* has added relationships of its own behind it
C15_Witness ==
    /\ NamingAnalysed
    /\ FromSource(analyzer_relationships, "foreign_key") # {}
    /\ FromSource(analyzer_relationships, "naming_pattern") # {}
    /\ \A i \in FromSource(analyzer_relationships, "foreign_key") :
           analyzer_relationships[i].confidence = Float(100)

\* C16: analyze_naming_patterns never appends a naming_pattern relationship
\* whose (from_table, from_column, to_table) triple equals that of a
\* foreign_key relationship already in the list.
C16_NoPatternDuplicatesForeignKey ==
    \A i \in FromSource(analyzer_relationships, "foreign_key") :
        \A j \in FromSource(analyzer_relationships, "naming_pattern") :
            Triple(analyzer_relationships[j]) # Triple(analyzer_relationships[i])

\* the naming-pattern analysis has met a column whose pattern names the very
\* table a foreign key on that column already points to
C16_Witness ==
    /\ NamingAnalysed
    /\ \E i \in FromSource(analyzer_relationships, "foreign_key") :
           LET r == analyzer_relationships[i]
               col_name == LowerText(r.from_column)
           IN  /\ r.to_table \in TableNames(tables)
               /\ r.from_table \in TableNames(tables)
               /\ EndsWithId(col_name)
               /\ LowerText(r.to_table) = SubSeq(col_name, 1, Len(col_name) - 1)
               /\ \E k \in 1..Len(TableGet(tables, r.from_table).columns) :
                      TableGet(tables, r.from_table).columns[k].name = r.from_column

\* C17: every relationship with source llm_inference has confidence >= 0.7,
\* names two tables of the known table set and has relationship_type in
\* {belongsTo, hasMany, hasOne}; a suggestion failing any of these, or
\* missing a required field or its confidence, is never admitted.
C17_InferredAreValidated ==
    \A i \in FromSource(analyzer_relationships, "llm_inference") :
        LET r == analyzer_relationships[i] IN
        /\ AtLeast(r.confidence, Float(70))
        /\ r.from_table \in TableNames(tables)
        /\ r.to_table \in TableNames(tables)
        /\ r.relationship_type \in RelationshipTypes
        /\ \E k \in 1..Len(llm_result.additional_relationships) :
               LET s == llm_result.additional_relationships[k] IN
               /\ RequiredFields \cup { "confidence" } \subseteq DOMAIN s
               /\ InferredRelationship(s) = r

\* C18: after any graph build (foreign-key analysis, naming-pattern analysis,
\* admission of model suggestions), the from_table and the to_table of every
\* relationship in the list are names of tables in the analyzer's table set.
C18_EndpointsAreTables ==
    \A i \in 1..Len(analyzer_relationships) :
        /\ analyzer_relationships[i].from_table \in TableNames(tables)
        /\ analyzer_relationships[i].to_table \in TableNames(tables)

-----------------------------------------------------------------------------
(* Properties of the queries sent to the engine *)

\* C19: no query sent to the semantic-layer engine contains a joins key,
\* whether it is the original query or the one proposed by the repair step.
C19_NoJoinsKeySent ==
    \A i \in 1..Len(engine_log) : "joins" \notin DOMAIN engine_log[i].query

-----------------------------------------------------------------------------
(* The SchemaHealer classifiers called on their own, schema_healer.py 48-99 *)

\* an error text is made of at most MaxFragments fragments
MaxFragments == 2

\* the engine's message for a measure or dimension it does not know
NotFoundFragment(field, cube_name, path_field) ==
    << "'", field, "'", " not found for path ", "'", cube_name, ".", path_field, "'" >>

\* pieces of error text: well-formed and malformed engine messages, and noise
Fragments ==
    { NotFoundFragment(f[1], e, f[2]) :
          e \in { "Film", "Actor" },
          f \in { << "count", "count" >>, << "total", "total" >>, << "count", "total" >> } }
    \cup { << "'", "count", "'", " not found for path ", "'",
              "Film", ".", "Actor", ".", "count", "'" >>,
           << "'", "count", "'", " not found for path ", "'", "Film", "'" >>,
           << "'", "'", " not found for path ", "'", "Film", ".", "count", "'" >>,
           << "Can't find join path to join ", "'", "Actor", "'", ", ", "'", "Address", "'" >>,
           << "Error: " >>,
           << "'" >> }

RECURSIVE Concat(_)
\* the concatenation of a list of texts
Concat(parts) == IF parts = << >> THEN << >> ELSE Head(parts) \o Concat(Tail(parts))

ErrorTexts == { Concat(p) : p \in UNION { [1..n -> Fragments] : n \in 0..MaxFragments } }

HealerInit ==
    /\ healer_input \in ErrorTexts
    /\ healer_parsed = NoValue
    /\ healer_join = NoValue
    /\ pc = "start"
    /\ relationships = << >>
    /\ cube_list = << >>
    /\ validation = NoValue
    /\ query = NoValue
    /\ question = NoValue
    /\ schema_context = NoValue
    /\ result = NoValue
    /\ fix_result = NoValue
    /\ retry_result = NoValue
    /\ returned = NoValue
    /\ raised = NoValue
    /\ engine_log = << >>
    /\ llm_log = << >>
    /\ tables = << >>
    /\ analyzer_relationships = << >>
    /\ llm_result = NoValue

\* the variables the classifiers do not touch
outside_healer ==
    << relationships, query, question, schema_context, validation, result,
       fix_result, retry_result, returned, raised, engine_log, llm_log,
       validator_vars, analyzer_vars >>

\* one call parse_missing_measure_error(error_message), lines 48-73
ParseMissingMeasure ==
    /\ pc = "start"
    /\ healer_parsed' = parse_missing_measure_error(healer_input)
    /\ pc' = "measure_parsed"
    /\ UNCHANGED << healer_input, healer_join, outside_healer >>

\* one call parse_join_error(error_message), lines 75-99
ParseJoin ==
    /\ pc = "measure_parsed"
    /\ healer_join' = parse_join_error(healer_input)
    /\ pc' = "done"
    /\ UNCHANGED << healer_input, healer_parsed, outside_healer >>

HealerNext == ParseMissingMeasure \/ ParseJoin

HealerSpec == HealerInit /\ [][HealerNext]_vars

-----------------------------------------------------------------------------
(* Properties of the classifiers *)

\* the text holds no quote, respectively no dot
QuoteFree(s) == \A i \in 1..Len(s) : s[i] # "'"

DotFree(s) == \A i \in 1..Len(s) : s[i] # "."

\* 'f' not found for path 'E.g' stands in the text with its quotes at the
\* positions i, j, j + 2 and m and its dot at k: f and g are non-empty and
\* free of quotes, E is non-empty and free of quotes and dots
StandsAt(text, i, j, k, m) ==
    /\ text[i] = "'" /\ text[j] = "'" /\ text[k] = "." /\ text[m] = "'"
    /\ j >= i + 2 /\ k >= j + 4 /\ m >= k + 2
    /\ text[j + 1] = " not found for path "
    /\ text[j + 2] = "'"
    /\ QuoteFree(SubSeq(text, i + 1, j - 1))
    /\ QuoteFree(SubSeq(text, j + 3, k - 1)) /\ DotFree(SubSeq(text, j + 3, k - 1))
    /\ QuoteFree(SubSeq(text, k + 1, m - 1))

\* some occurrence in the text has an entity E and a field f with Holds(E, f)
SomeOccurrence(text, Holds(_, _)) ==
    \E i \in 1..Len(text) :
        /\ text[i] = "'"
        /\ \E j \in (i + 2)..Len(text) :
               /\ text[j] = "'"
               /\ \E k \in (j + 4)..Len(text) :
                      /\ text[k] = "."
                      /\ \E m \in (k + 2)..Len(text) :
                             /\ StandsAt(text, i, j, k, m)
                             /\ Holds(SubSeq(text, j + 3, k - 1), SubSeq(text, i + 1, j - 1))

AnyOccurrence(e, f) == TRUE

\* the classification returned is cube e and measure f
ClassifiedAs(e, f) ==
    /\ healer_parsed # NoValue
    /\ healer_parsed.cube = e
    /\ healer_parsed.measure = f

\* parse_missing_measure_error has returned
MeasureParsed == pc \in { "measure_parsed", "done" } /\ healer_input # << >>

\* C20: for every error text containing 'f' not found for path 'E.f',
\* parse_missing_measure_error yields cube E and measure f (cube Film and
\* measure count for 'count' not found for path 'Film.count'); for a text
\* without that pattern it yields no classification.  Read in the claim's
\* favour: of several occurrences any one may be the one reported, and the
\* field written in the path need not be the quoted one.
C20_MissingMeasureClassified ==
    MeasureParsed =>
        IF SomeOccurrence(healer_input, AnyOccurrence)
            THEN SomeOccurrence(healer_input, ClassifiedAs)
            ELSE healer_parsed = NoValue

-----------------------------------------------------------------------------
(* Properties of get_join_path and of the validator's choice of pairs *)

\* some relationship joins a and b, in either direction, names compared
\* without regard to case
Joined(rels, a, b) ==
    \E i \in 1..Len(rels) :
        \/ Upper(rels[i][1]) = Upper(a) /\ Upper(rels[i][2]) = Upper(b)
        \/ Upper(rels[i][1]) = Upper(b) /\ Upper(rels[i][2]) = Upper(a)

\* p is a shortest path from a to b: it starts at a, ends at b, joins every
\* consecutive pair, repeats no entity and has the fewest edges possible
ShortestPath(rels, p, a, b) ==
    /\ p # << >>
    /\ Upper(p[1]) = Upper(a)
    /\ Upper(p[Len(p)]) = Upper(b)
    /\ \A i \in 1..(Len(p) - 1) : Joined(rels, p[i], p[i + 1])
    /\ \A i, j \in 1..Len(p) : p[i] = p[j] => i = j
    /\ Len(p) - 1 = Hops(rels, a, b)

\* C21: for every graph and every pair of distinct entities, get_join_path
\* returns a path that starts at the first entity, ends at the second, has
\* every consecutive pair joined by a relationship in either direction,
\* repeats no entity and has the minimum number of edges; it returns None
\* exactly when no path exists.
C21_JoinPathIsShortest ==
    Validated =>
        \A i, j \in 1..Len(cube_list) :
            i # j =>
                LET path == get_join_path(relationships, cube_list[i], cube_list[j]) IN
                IF Hops(relationships, cube_list[i], cube_list[j]) = -1
                    THEN path = NoValue
                    ELSE /\ path # NoValue
                         /\ ShortestPath(relationships, path.v, cube_list[i], cube_list[j])

\* the pair (i, j) of positions of the queried list comes no later than (a, b)
\* in the order of the two loops: outer index first, inner index second
NoLater(i, j, a, b) == i < a \/ (i = a /\ j <= b)

\* C22: when pairs of the queried list have no path, validate_query_cubes
\* reports as from_cube and to_cube the first unreachable pair in enumeration
\* order (outer index over the earlier entity, inner index over the later
\* one); for [Film, Address] with no connecting edge it reports Film and
\* Address.
C22_FirstUnreachablePairReported ==
    (Validated /\ SomePairUnconnected) =>
        \E i, j \in 1..Len(cube_list) :
            /\ i < j
            /\ Hops(relationships, cube_list[i], cube_list[j]) = -1
            /\ \A a, b \in 1..Len(cube_list) :
                   (a < b /\ Hops(relationships, cube_list[a], cube_list[b]) = -1)
                       => NoLater(i, j, a, b)
            /\ ~validation.valid
            /\ validation.from_cube = cube_list[i]
            /\ validation.to_cube = cube_list[j]

-----------------------------------------------------------------------------
(* validate_query_cubes on long join paths, schema_validator.py 41-73 *)

\* the relationship graph is made of at most MaxChainEdges relationships of
\* the chain STAFF - STORE - CUSTOMER - ADDRESS - ACTOR - FILM
MaxChainEdges == 5

LongPathInit ==
    LET ChainEdges ==
            { << "STAFF", "STORE" >>, << "STORE", "CUSTOMER" >>, << "CUSTOMER", "ADDRESS" >>,
              << "ACTOR", "ADDRESS" >>, << "FILM", "ACTOR" >> }
        ChainCubes == { "Film", "Customer", "Store", "Staff" }
    IN  /\ relationships \in
               UNION { { g \in [1..n -> ChainEdges] : \A i, j \in 1..n : g[i] = g[j] => i = j } :
                         n \in { m \in 0..MaxChainEdges : m <= Cardinality(ChainEdges) } }
        /\ cube_list \in { o \in [1..3 -> ChainCubes] : \A i, j \in 1..3 : o[i] = o[j] => i = j }
        /\ pc = "start"
        /\ validation = NoValue
        /\ query = NoValue
        /\ question = NoValue
        /\ schema_context = NoValue
        /\ result = NoValue
        /\ fix_result = NoValue
        /\ retry_result = NoValue
        /\ returned = NoValue
        /\ raised = NoValue
        /\ engine_log = << >>
        /\ llm_log = << >>
        /\ tables = << >>
        /\ analyzer_relationships = << >>
        /\ llm_result = NoValue
        /\ healer_input = << >>
        /\ healer_parsed = NoValue
        /\ healer_join = NoValue

LongPathSpec == LongPathInit /\ [][Validate]_vars

-----------------------------------------------------------------------------
(* Properties of the long-path warning *)

\* the pairs of positions of the queried list whose shortest connecting path
\* has more than three edges
LongPairs ==
    { p \in (1..Len(cube_list)) \X (1..Len(cube_list)) :
          p[1] < p[2] /\ Hops(relationships, cube_list[p[1]], cube_list[p[2]]) > 3 }

\* the warning's path runs from cube a to cube b over k edges, the names
\* separated by arrows
Cites(path, a, b, k) ==
    /\ Len(path) = 2 * k + 1
    /\ Upper(path[1]) = Upper(a)
    /\ Upper(path[Len(path)]) = Upper(b)
    /\ \A i \in 1..k : path[2 * i] = " -> "

\* C23: when all queried pairs are reachable and more than one pair exceeds
\* the hop threshold, the warning of validate_query_cubes cites the path of
\* the pair with the longest path, rendered as the ordered sequence of
\* entity names.
C23_WarningCitesLongestPath ==
    (Validated /\ ~SomePairUnconnected /\ Cardinality(LongPairs) > 1) =>
        /\ validation.valid
        /\ "warning" \in DOMAIN validation
        /\ \E p \in LongPairs :
               LET k == Hops(relationships, cube_list[p[1]], cube_list[p[2]]) IN
               /\ \A r \in LongPairs :
                      Hops(relationships, cube_list[r[1]], cube_list[r[2]]) <= k
               /\ Cites(validation.path, cube_list[p[1]], cube_list[p[2]], k)

-----------------------------------------------------------------------------
(* Properties of the repair after a failed pre-validation *)

\* C24: when pre-validation fails and both question and schema context are
\* non-empty, exactly one repair call is made, with the validator's message
\* as error_message and the original query as failed_query; the engine is
\* then called only if the repair reports fixed, and only with the repaired
\* query, and the request ends either way.
C24_PreValidationRepairedOnce ==
    (PreValidationFailed /\ HasContext) =>
        /\ pc \in { "pre_fix", "pre_retry", "done", "raised" }
        /\ Len(llm_log) = (IF pc = "pre_fix" THEN 0 ELSE 1)
        /\ \A i \in 1..Len(llm_log) :
               /\ llm_log[i].error_message = validation.message
               /\ llm_log[i].failed_query = query
        /\ Len(engine_log) = (IF pc = "done" /\ fix_result.fixed THEN 1 ELSE 0)
        /\ \A i \in 1..Len(engine_log) :
               /\ fix_result.fixed
               /\ engine_log[i].query = fix_result.query
        /\ Terminated <=> pc \notin { "pre_fix", "pre_retry" }

\* a rejected query was repaired once and the repaired query was sent to the
\* engine, which also failed it
C24_Witness ==
    /\ PreValidationFailed
    /\ HasContext
    /\ pc = "done"
    /\ Len(llm_log) = 1
    /\ llm_log[1].error_message = validation.message
    /\ Len(engine_log) = 1
    /\ engine_log[1].query = fix_result.query
    /\ engine_log[1].query # query
    /\ ~engine_log[1].result.success

-----------------------------------------------------------------------------
(* Properties of the failure result when no repair context is supplied *)

\* Can't find join path to join 'A', 'B' stands in the text, with A and B
\* non-empty and free of quotes and Holds(A, B)
SomeJoinNamed(text, Holds(_, _)) ==
    \E i \in 1..Len(text) :
        /\ text[i] = "Can't find join path to join "
        /\ \E j \in (i + 3)..Len(text) :
               /\ text[j] = "'"
               /\ \E m \in (j + 4)..Len(text) :
                      /\ text[m] = "'"
                      /\ text[i + 1] = "'"
                      /\ text[j + 1] = ", "
                      /\ text[j + 2] = "'"
                      /\ QuoteFree(SubSeq(text, i + 2, j - 1))
                      /\ QuoteFree(SubSeq(text, j + 3, m - 1))
                      /\ Holds(SubSeq(text, i + 2, j - 1), SubSeq(text, j + 3, m - 1))

\* the suggestion of the returned result names the entities a and b
SuggestionNames(a, b) ==
    /\ "suggestion" \in DOMAIN returned
    /\ Contains(returned.suggestion, a \o << " and " >> \o b)

\* the first execution failed in a request without repair context
FailedWithoutContext ==
    /\ pc = "done"
    /\ ~HasContext
    /\ engine_log # << >>
    /\ ~engine_log[1].result.success

\* C25: when engine execution fails and the question or the schema context
\* is empty, no language-model call and no second engine call are made, and
\* the failure result has error_type missing_measure if the missing-aggregate
\* pattern matches the error, otherwise error_type missing_join_path with the
\* two named entities if the join pattern matches, otherwise neither
\* error_type nor suggestion.
C25_ClassifiedWithoutContext ==
    /\ ~HasContext => pc \notin { "pre_fix", "pre_retry", "fix", "retry", "raised" }
    /\ FailedWithoutContext =>
           LET err == engine_log[1].result.error IN
           /\ llm_log = << >>
           /\ Len(engine_log) = 1
           /\ ~returned.success
           /\ returned.error = err
           /\ IF SomeOccurrence(err, AnyOccurrence)
                  THEN /\ "error_type" \in DOMAIN returned
                       /\ returned.error_type = "missing_measure"
                       /\ "suggestion" \in DOMAIN returned
              ELSE IF SomeJoinNamed(err, AnyOccurrence)
                  THEN /\ "error_type" \in DOMAIN returned
                       /\ returned.error_type = "missing_join_path"
                       /\ SomeJoinNamed(err, SuggestionNames)
              ELSE /\ "error_type" \notin DOMAIN returned
                   /\ "suggestion" \notin DOMAIN returned

\* a request without context whose only execution was answered 400 with the
\* join error, returned as missing_join_path naming Actor and Address
C25_Witness ==
    /\ FailedWithoutContext
    /\ engine_log[1].http.kind = "response"
    /\ engine_log[1].http.status = 400
    /\ "error_type" \in DOMAIN returned
    /\ returned.error_type = "missing_join_path"
    /\ SuggestionNames(<< "Actor" >>, << "Address" >>)

-----------------------------------------------------------------------------
(* Properties of attempt_fix on an answer laid out as the prompt prescribes *)

\* the QUERY: section of an answer that gives the JSON object with members b:
\* bare on the marker's line, or inside a code fence, tagged json or not
PrescribedQuery(b) ==
    { << "QUERY:", " ", "{", b, "}", "\n" >>,
      << "QUERY:", "\n", Fence, "json", "\n", "{", b, "}", "\n", Fence, "\n" >>,
      << "QUERY:", " ", Fence, "\n", "{", b, "}", "\n", Fence, "\n" >> }

\* the text of an EXPLANATION: section, its lines put side by side
ExplanationText(e) ==
    LET body == SubSeq(e, 3, Len(e) - 1)
    IN  [i \in 1..Len(body) |-> IF body[i] = "\n" THEN " " ELSE body[i]]

\* the answer is FIXED: true, then QUERY: with the object of members b, then
\* the EXPLANATION: section e
Prescribed(content, b, e) ==
    \E t \in { "true", "True" }, q \in PrescribedQuery(b) :
        content = << "FIXED:", " ", t, "\n" >> \o q \o e

\* C26: when the answer is laid out as the prompt prescribes (FIXED: true,
\* then QUERY: followed by a valid JSON object, then EXPLANATION:),
\* attempt_fix returns fixed=true with that object as the query and the
\* explanation text as the explanation, whether or not the JSON is fenced.
C26_PrescribedAnswerParsed ==
    \A i \in 1..Len(llm_log) :
        LET call == llm_log[i] IN
        \A b \in DOMAIN JsonMembers, e \in ExplanationSections \ { << >> } :
            (call.llm.kind = "text" /\ Prescribed(call.llm.content, b, e)) =>
                /\ call.result.fixed
                /\ "query" \in DOMAIN call.result
                /\ call.result.query = JsonMembers[b]
                /\ call.result.explanation = ExplanationText(e)

-----------------------------------------------------------------------------
(* Properties of the execution of a repaired query *)

\* validate_query_cubes rejects the cubes of q on the current relationships
ValidatorRejects(q) ==
    /\ Cardinality(ExtractedCubes(q)) > 1
    /\ \A cubes \in Orderings(ExtractedCubes(q)) :
           InvalidPairs(relationships, cubes) # << >>

\* the repair reported a fix and gave a query
RepairGaveQuery ==
    /\ llm_log # << >>
    /\ llm_log[1].result.fixed
    /\ "query" \in DOMAIN llm_log[1].result

\* C27: the repaired query goes to the engine without join-path
\* pre-validation and without structural validation: what the engine receives
\* in a re-execution is the query of the repair as it is, and every repair
\* that gave a query is followed by that execution, also when the validator
\* would reject the query.
C27_RepairedQuerySentUnvalidated ==
    /\ \A i \in Reexecutions :
           /\ RepairGaveQuery
           /\ engine_log[i].query = llm_log[1].result.query
    /\ (pc = "done" /\ RepairGaveQuery) => Cardinality(Reexecutions) = 1

\* the engine received a repaired query whose cubes the validator rejects
C27_Witness ==
    \E i \in Reexecutions : ValidatorRejects(engine_log[i].query)

-----------------------------------------------------------------------------
(* Properties of a request whose first execution succeeds *)

\* the first engine call was made for the request's own query and succeeded
FirstExecutionSucceeded ==
    /\ engine_log # << >>
    /\ engine_log[1].step = "execute"
    /\ engine_log[1].result.success

\* C28: when the first engine execution succeeds, the executor's result is
\* returned unchanged: no language-model call, no second engine call, and
\* none of auto_fixed, original_query, fix_attempted, fix_explanation, with
\* or without question and schema context.
C28_SuccessReturnedUnchanged ==
    FirstExecutionSucceeded =>
        /\ pc = "done"
        /\ returned = engine_log[1].result
        /\ returned = execute_query(query, engine_log[1].http)
        /\ llm_log = << >>
        /\ Len(engine_log) = 1
        /\ DOMAIN returned \cap
               { "auto_fixed", "original_query", "fix_attempted", "fix_explanation" } = { }

\* a request with question and schema context whose first execution
\* succeeded and returned rows
C28_Witness ==
    /\ FirstExecutionSucceeded
    /\ HasContext
    /\ pc = "done"
    /\ "data" \in DOMAIN returned
    /\ returned.data # << >>

-----------------------------------------------------------------------------
(* execute_query_with_fixing on a schema whose address entities all reach
   ADDRESS, query_service.py 46-156 with schema_validator.py 88-112 *)

\* the relationship graph is made of at most MaxAddressEdges of the
\* relationships of CUSTOMER, STAFF and STORE to ADDRESS
MaxAddressEdges == 3

AddressInit ==
    LET AddressEdges ==
            { << "CUSTOMER", "ADDRESS" >>, << "STAFF", "ADDRESS" >>, << "STORE", "ADDRESS" >> }
    IN  /\ relationships \in
               UNION { { g \in [1..n -> AddressEdges] : \A i, j \in 1..n : g[i] = g[j] => i = j } :
                         n \in { m \in 0..MaxAddressEdges : m <= Cardinality(AddressEdges) } }
        /\ query \in { QFilmCount, QFilmAddress }
        /\ question \in Questions
        /\ schema_context \in SchemaContexts
        /\ pc = "start"
        /\ validation = NoValue
        /\ result = NoValue
        /\ fix_result = NoValue
        /\ retry_result = NoValue
        /\ returned = NoValue
        /\ raised = NoValue
        /\ engine_log = << >>
        /\ llm_log = << >>
        /\ cube_list = << >>
        /\ tables = << >>
        /\ analyzer_relationships = << >>
        /\ llm_result = NoValue
        /\ healer_input = << >>
        /\ healer_parsed = NoValue
        /\ healer_join = NoValue

AddressSpec == AddressInit /\ [][Next]_vars

-----------------------------------------------------------------------------
(* Properties of the rendered rejection *)

\* the positions of the suggestions of the given type in the validation
OfType(type) ==
    { i \in 1..Len(validation.suggestions) : validation.suggestions[i].type = type }

\* the message renders the i-th suggestion of the validation under number i
Rendered(msg, i) ==
    LET s == validation.suggestions[i] IN
    IF s.type = "alternative_entity"
        THEN Contains(msg, << ToString(i), ". Try querying ", s.entity, " instead:" >>)
        ELSE Contains(msg, << ToString(i), ". " >> \o s.description)

\* the request was rejected by the validator and answered with the rendered
\* suggestions
RejectionRendered ==
    /\ pc = "done"
    /\ PreValidationFailed
    /\ returned # NoValue
    /\ "suggestion" \in DOMAIN returned

\* C29: format_validation_error renders only the first three suggestions;
\* the alternative-entity suggestions come before the separate-queries one,
\* so the message omits the separate-queries suggestion whenever three
\* alternative-entity suggestions were generated.
C29_OnlyFirstThreeRendered ==
    RejectionRendered =>
        /\ \A i \in 1..Len(validation.suggestions) :
               Rendered(returned.suggestion, i) <=> i <= 3
        /\ \A i \in OfType("alternative_entity"), j \in OfType("separate_queries") : i < j
        /\ Cardinality(OfType("alternative_entity")) = 3 =>
               /\ OfType("separate_queries") # { }
               /\ \A j \in OfType("separate_queries") : ~Rendered(returned.suggestion, j)

\* a rejection with three alternative entities, whose message leaves out the
\* separate-queries suggestion
C29_Witness ==
    /\ RejectionRendered
    /\ Cardinality(OfType("alternative_entity")) = 3
    /\ \E j \in OfType("separate_queries") : ~Rendered(returned.suggestion, j)

-----------------------------------------------------------------------------
(* RelationshipAnalyzer with its two analyses called directly, in any order
   and any number of times, relationship_analyzer.py 103-235 *)

\* an analysis is called while the list holds fewer than MaxRelationships
\* relationships
MaxRelationships == 4

DirectInit ==
    /\ tables \in { AddTablesFrom(<< >>, fetched, 1) : fetched \in FetchedTables }
    /\ analyzer_relationships = << >>
    /\ llm_result = NoValue
    /\ pc = "start"
    /\ raised = NoValue
    /\ relationships = << >>
    /\ cube_list = << >>
    /\ validation = NoValue
    /\ query = NoValue
    /\ question = NoValue
    /\ schema_context = NoValue
    /\ result = NoValue
    /\ fix_result = NoValue
    /\ retry_result = NoValue
    /\ returned = NoValue
    /\ engine_log = << >>
    /\ llm_log = << >>
    /\ healer_input = << >>
    /\ healer_parsed = NoValue
    /\ healer_join = NoValue

\* analyzer.analyze_foreign_keys(), lines 103-108
CallForeignKeys ==
    /\ Len(analyzer_relationships) < MaxRelationships
    /\ analyzer_relationships' = analyze_foreign_keys(analyzer_relationships, tables)
    /\ pc' = "after_foreign_keys"
    /\ UNCHANGED << tables, llm_result, raised, outside_pipeline >>

\* analyzer.analyze_naming_patterns(), lines 184-193
CallNamingPatterns ==
    /\ Len(analyzer_relationships) < MaxRelationships
    /\ analyzer_relationships' = analyze_naming_patterns(analyzer_relationships, tables)
    /\ pc' = "after_naming_patterns"
    /\ UNCHANGED << tables, llm_result, raised, outside_pipeline >>

DirectSpec == DirectInit /\ [][CallForeignKeys \/ CallNamingPatterns]_vars

-----------------------------------------------------------------------------
(* Properties of the analyses called in any order *)

\* two relationships of the list have the same (from_table, from_column,
\* to_table) triple
HasDuplicateTriple(rels) ==
    \E i, j \in 1..Len(rels) : i < j /\ Triple(rels[i]) = Triple(rels[j])

\* what a call has put behind the relationships the list held
Appended ==
    SubSeq(analyzer_relationships', Len(analyzer_relationships) + 1,
           Len(analyzer_relationships'))

\* C30: the exclusion of duplicates depends on the order of the calls.
\* analyze_foreign_keys appends what the constraints give without looking at
\* the list, so when it runs a second time on constraints that give a
\* relationship, or after analyze_naming_patterns has found the triple of a
\* foreign key, the list holds two relationships with the same triple;
\* analyze_naming_patterns run a second time appends nothing.
C30_DuplicatesDependOnOrder ==
    /\ [][pc' = "after_foreign_keys" =>
              /\ Len(analyzer_relationships') >= Len(analyzer_relationships)
              /\ SubSeq(analyzer_relationships', 1, Len(analyzer_relationships))
                     = analyzer_relationships
              /\ \A j \in 1..Len(Appended) : Appended[j].source = "foreign_key"
              /\ Appended = analyze_foreign_keys(<< >>, tables)
              /\ (pc = "after_foreign_keys" /\ Appended # << >>)
                     => HasDuplicateTriple(analyzer_relationships')
              /\ (\E i \in FromSource(analyzer_relationships, "naming_pattern"),
                     j \in 1..Len(Appended) :
                         Triple(analyzer_relationships[i]) = Triple(Appended[j]))
                     => HasDuplicateTriple(analyzer_relationships')]_vars
    /\ [](pc = "after_naming_patterns" =>
              analyze_naming_patterns(analyzer_relationships, tables)
                  = analyzer_relationships)

\* analyze_foreign_keys ran after analyze_naming_patterns and the list holds
\* the same triple once from each
C30_Witness ==
    /\ pc = "after_foreign_keys"
    /\ \E i \in FromSource(analyzer_relationships, "naming_pattern"),
          j \in FromSource(analyzer_relationships, "foreign_key") :
           i < j /\ Triple(analyzer_relationships[i]) = Triple(analyzer_relationships[j])

=============================================================================
